---- MODULE Spec2Model ----
(***************************************************************************)
(* A model of the metadata registry of the store (libstore/local-store.cc, *)
(* libstore/store-api.cc): the valid-path tables, the four reference       *)
(* relations, derivers, substitutes, the shared-state aliases, and the     *)
(* ingestion pipeline with its per-path lock.                              *)
(***************************************************************************)
EXTENDS Integers, Sequences, FiniteSets, TLC

VARIABLES db, fs, now, txn, last, walk, pc, lock, mat, wire, dst, disk, schema

vars == <<db, fs, now, txn, last, walk, pc, lock, mat, wire, dst, disk, schema>>

----------------------------------------------------------------------------
(* Paths.  A path is a string; its shape (isStorePath / isStatePath) is    *)
(* decided by the set it belongs to.                                       *)

NoRow == "none"

\* component paths that are not recipes
CompPaths == {"c1", "c2"}

\* recipe (derivation) paths; they are component paths as well
Drvs == {"d0", "d1", "d2", "d3"}

StorePaths == CompPaths \cup Drvs

StatePaths == {"s1", "s2", "s3"}

AllPaths == StorePaths \cup StatePaths

\* the clock (getTimeStamp) never runs past MaxTime in the model
MaxTime == 2

\* the number of concurrent ingestion callers
NumProcs == 2

Procs == 1..NumProcs

isStorePath(p) == p \in StorePaths

isStatePath(p) == p \in StatePaths

----------------------------------------------------------------------------
(* Recipes on disk: the facts derivationFromPathTxn extracts.              *)

DrvInfo ==
  [d \in Drvs |->
     CASE d = "d0" -> [isState |-> FALSE, stateIdentifier |-> "", username |-> ""]
       [] d = "d1" -> [isState |-> TRUE, stateIdentifier |-> "id1", username |-> "u1"]
       [] d = "d2" -> [isState |-> TRUE, stateIdentifier |-> "id1", username |-> "u1"]
       [] d = "d3" -> [isState |-> TRUE, stateIdentifier |-> "id2", username |-> "u1"]]

----------------------------------------------------------------------------
(* The database: one record, one field per table.  A table keyed by a     *)
(* path is a function over AllPaths (an absent row is NoRow, or the empty  *)
(* list for a multi-string table); a table keyed by (state path, number)   *)
(* is a set of rows [path, ts, refs] or [path, rev, closure].              *)

EmptyDB ==
  [ validPaths      |-> [p \in AllPaths |-> NoRow],
    validStatePaths |-> [p \in AllPaths |-> NoRow],
    references_cc   |-> [p \in AllPaths |-> {}],
    references_cs   |-> [p \in AllPaths |-> {}],
    references_sc   |-> {},
    references_ss   |-> {},
    revisions       |-> {},
    snapshots       |-> {},
    revisionsComments |-> {},
    derivers        |-> [p \in AllPaths |-> [kind |-> "none", str |-> "", list |-> {}]],
    stateInfo       |-> {},
    substitutes     |-> [p \in AllPaths |-> <<>>],
    sharedState     |-> [p \in AllPaths |-> NoRow] ]

Ok(d) == [ok |-> TRUE, err |-> "", db |-> d]

Err(e, d) == [ok |-> FALSE, err |-> e, db |-> d]

isValidPathTxn(d, path) == d.validPaths[path] # NoRow

isValidStatePathTxn(d, path) == d.validStatePaths[path] # NoRow

isValidComponentOrStatePathTxn(d, path) ==
  isValidPathTxn(d, path) \/ isValidStatePathTxn(d, path)

----------------------------------------------------------------------------
(* Substitutes.                                                            *)

substituteVersion == 2

\* the substitute the registry operations register
RegSubs == {[deriver |-> "d0", program |-> "fetch", args |-> <<>>]}

\* a reader that takes a record of any version
versionMatches_Any(version) == TRUE

\* the version test of readSubstitutes
versionMatches(version) == version = substituteVersion

\* the loop of readSubstitutes over the stored (packed) records: a record is
\* old style, or unpacks into size strings of which the first is the version
\* (a version string that is no number is skipped like a number that is not 2)
RECURSIVE readSubstitutesLoop(_, _)
readSubstitutesLoop(ss, subs) ==
  IF ss = <<>> THEN [ok |-> TRUE, err |-> "", subs |-> subs]
  ELSE IF Head(ss).oldStyle THEN [ok |-> TRUE, err |-> "", subs |-> subs]
  ELSE IF Head(ss).size = 0 THEN readSubstitutesLoop(Tail(ss), subs)
  ELSE IF ~versionMatches(Head(ss).version) THEN readSubstitutesLoop(Tail(ss), subs)
  ELSE IF Head(ss).size # 4 THEN [ok |-> FALSE, err |-> "malformed substitute", subs |-> <<>>]
  ELSE readSubstitutesLoop(Tail(ss),
         Append(subs, [deriver |-> Head(ss).deriver, program |-> Head(ss).program,
                       args |-> Head(ss).args]))

\* the substitutes readSubstitutes returns
readSubstitutesFrom(ss) == readSubstitutesLoop(ss, <<>>).subs

readSubstitutes(d, srcPath) == readSubstitutesFrom(d.substitutes[srcPath])

querySubstitutes(d, path) == readSubstitutes(d, path)

writeSubstitutes(d, srcPath, subs) ==
  [d EXCEPT !.substitutes[srcPath] =
     [i \in 1..Len(subs) |->
        [oldStyle |-> FALSE, size |-> 4, version |-> substituteVersion,
         deriver |-> subs[i].deriver,
         program |-> subs[i].program, args |-> subs[i].args]]]

\* Substitute::operator ==
SubstituteEq(a, b) == a.program = b.program /\ a.args = b.args

\* std::remove without erase on a list that holds no element equal to sub
\* leaves the list as it is; registerSubstitute returns before it otherwise
registerSubstitute(d, srcPath, sub) ==
  LET subs == readSubstitutes(d, srcPath)
  IN IF ~isStorePath(srcPath) THEN Err("NotStorePath", d)
     ELSE IF \E i \in 1..Len(subs) : SubstituteEq(subs[i], sub) THEN Ok(d)
     ELSE Ok(writeSubstitutes(d, srcPath, <<sub>> \o subs))

isRealisablePath(d, path) ==
  isValidPathTxn(d, path) \/ Len(readSubstitutes(d, path)) > 0

isRealisableStatePath(d, path) ==
  isValidStatePathTxn(d, path) \/ Len(readSubstitutes(d, path)) > 0

isRealisableComponentOrStatePath(d, path) ==
  isValidComponentOrStatePathTxn(d, path) \/ Len(readSubstitutes(d, path)) > 0

----------------------------------------------------------------------------
(* The revisioned tables of the database layer: rows keyed by              *)
(* (state path, timestamp), and the revision -> timestamp lookup.          *)

\* the revision argument -1 of some calls: as an unsigned int it is a number
\* no revision ever has, and it is not 0
MinusOne == -1

Max(S) == CHOOSE x \in S : \A y \in S : y <= x

\* the timestamp recorded for statePath in its revision row
nixDB_revisionToTimeStamp(d, statePath, revision) ==
  LET hits == {e \in UNION {r.closure : r \in {x \in d.revisions :
                              x.path = statePath /\ x.rev = revision}} :
                 e.path = statePath}
  IN IF hits = {} THEN [found |-> FALSE, ts |-> 0]
     ELSE [found |-> TRUE, ts |-> Max({e.ts : e \in hits})]

\* the timestamp a revisioned read or write of statePath addresses; 0 = latest/new
resolveTimeStamp(d, statePath, revision, timestamp) ==
  IF timestamp # 0 THEN [found |-> TRUE, ts |-> timestamp]
  ELSE IF revision = 0 THEN [found |-> TRUE, ts |-> 0]
  ELSE nixDB_revisionToTimeStamp(d, statePath, revision)

\* nixDB.queryStateReferences on table d[table]
nixDB_queryStateReferences(d, table, statePath, revision, timestamp) ==
  LET rows == {r \in d[table] : r.path = statePath}
      t == resolveTimeStamp(d, statePath, revision, timestamp)
      at == IF t.ts = 0 THEN {r \in rows : \A q \in rows : q.ts <= r.ts}
            ELSE {r \in rows : r.ts = t.ts}
  IN IF ~t.found THEN [ok |-> FALSE, err |-> "NoSuchRevision", refs |-> {}]
     ELSE [ok |-> TRUE, err |-> "", refs |-> UNION {r.refs : r \in at}]

\* nixDB.setStateReferences on table d[table]; nowTs is the clock
nixDB_setStateReferences(d, table, statePath, references, revision, timestamp, nowTs) ==
  LET t == resolveTimeStamp(d, statePath, revision, timestamp)
      ts == IF t.ts = 0 THEN nowTs ELSE t.ts
      row == [path |-> statePath, ts |-> ts, refs |-> references]
  IN IF ~t.found THEN Err("NoSuchRevision", d)
     ELSE Ok([d EXCEPT ![table] =
                {r \in d[table] : ~(r.path = statePath /\ r.ts = ts)} \cup {row}])

----------------------------------------------------------------------------
(* Shared state.                                                           *)

setSharedStateTxn(d, fromExisting, toNew) ==
  [d EXCEPT !.sharedState[toNew] = fromExisting]

querySharedStateTxn(d, statePath) == d.sharedState[statePath] # NoRow

\* one iteration of the while loop of toNonSharedPathTxn
toNonSharedStep(d, returnedPath) == d.sharedState[returnedPath]

RECURSIVE toNonSharedFrom(_, _, _)
toNonSharedFrom(d, returnedPath, visited) ==
  IF ~querySharedStateTxn(d, returnedPath) THEN [diverges |-> FALSE, path |-> returnedPath]
  ELSE IF returnedPath \in visited THEN [diverges |-> TRUE, path |-> returnedPath]
  ELSE toNonSharedFrom(d, toNonSharedStep(d, returnedPath), visited \cup {returnedPath})

\* the result of the loop; diverges is TRUE when the loop never leaves a cycle
toNonSharedPathTxn(d, statePath) == toNonSharedFrom(d, statePath, {})

----------------------------------------------------------------------------
(* References.                                                             *)

QOk(refs) == [ok |-> TRUE, err |-> "", refs |-> refs]

QErr(e) == [ok |-> FALSE, err |-> e, refs |-> {}]

\* setReferences writing the rows of a component only for revision 0
setReferences_LatestOnly(d, store_or_statePath, references, stateReferences, revision, nowTs) ==
  IF references # {} /\ ~isRealisableComponentOrStatePath(d, store_or_statePath)
  THEN Err("NotRealisable", d)
  ELSE IF isRealisablePath(d, store_or_statePath)
  THEN IF revision # 0 THEN Ok(d)
       ELSE Ok([d EXCEPT !.references_cc[store_or_statePath] = references,
                         !.references_cs[store_or_statePath] = stateReferences])
  ELSE IF isRealisableStatePath(d, store_or_statePath)
  THEN LET r1 == nixDB_setStateReferences(d, "references_sc", store_or_statePath,
                                          references, revision, 0, nowTs)
       IN IF ~r1.ok THEN r1
          ELSE nixDB_setStateReferences(r1.db, "references_ss", store_or_statePath,
                                        stateReferences, revision, 0, nowTs)
  ELSE Err("NotRealisable", d)

\* setReferences clearing the rows of a path that is not realisable
setReferences_ClearsUnrealisable(d, store_or_statePath, references, stateReferences, revision, nowTs) ==
  IF references # {} /\ ~isRealisableComponentOrStatePath(d, store_or_statePath)
  THEN Err("NotRealisable", d)
  ELSE IF isRealisablePath(d, store_or_statePath)
  THEN Ok([d EXCEPT !.references_cc[store_or_statePath] = references,
                    !.references_cs[store_or_statePath] = stateReferences])
  ELSE IF isRealisableStatePath(d, store_or_statePath)
  THEN LET r1 == nixDB_setStateReferences(d, "references_sc", store_or_statePath,
                                          references, revision, 0, nowTs)
       IN IF ~r1.ok THEN r1
          ELSE nixDB_setStateReferences(r1.db, "references_ss", store_or_statePath,
                                        stateReferences, revision, 0, nowTs)
  ELSE Ok([d EXCEPT !.references_cc[store_or_statePath] = {},
                    !.references_cs[store_or_statePath] = {}])

setReferences(d, store_or_statePath, references, stateReferences, revision, nowTs) ==
  IF references # {} /\ ~isRealisableComponentOrStatePath(d, store_or_statePath)
  THEN Err("NotRealisable", d)
  ELSE IF isRealisablePath(d, store_or_statePath)
  THEN IF d.references_cc[store_or_statePath] = references
          /\ d.references_cs[store_or_statePath] = stateReferences
       THEN Ok(d)
       ELSE Ok([d EXCEPT !.references_cc[store_or_statePath] = references,
                         !.references_cs[store_or_statePath] = stateReferences])
  ELSE IF isRealisableStatePath(d, store_or_statePath)
  THEN LET r1 == nixDB_setStateReferences(d, "references_sc", store_or_statePath,
                                          references, revision, 0, nowTs)
       IN IF ~r1.ok THEN r1
          ELSE nixDB_setStateReferences(r1.db, "references_ss", store_or_statePath,
                                        stateReferences, revision, 0, nowTs)
  ELSE Err("NotRealisable", d)

queryXReferencesTxn(d, store_or_statePath, component_or_state, revision, timestamp) ==
  LET table1 == IF component_or_state THEN "references_cc" ELSE "references_cs"
      table2 == IF component_or_state THEN "references_sc" ELSE "references_ss"
      ns == toNonSharedPathTxn(d, store_or_statePath)
  IN IF isRealisablePath(d, store_or_statePath)
     THEN QOk(d[table1][store_or_statePath])
     ELSE IF isRealisableStatePath(d, store_or_statePath)
     THEN IF ns.diverges THEN QErr("diverges")
          ELSE nixDB_queryStateReferences(d, table2, ns.path, revision, timestamp)
     ELSE QErr("NotRealisable")

\* unsigned int -> bool and bool -> unsigned int, as the calls below convert
ToBool(n) == n # 0

ToUInt(b) == IF b THEN 1 ELSE 0

\* LocalStore::queryReferences: the call passes (revision, true) for the
\* parameters (component_or_state, revision)
LocalStore_queryReferences(d, storePath, revision) ==
  queryXReferencesTxn(d, storePath, ToBool(revision), ToUInt(TRUE), 0)

\* LocalStore::queryStateReferences: the call passes (revision, false)
LocalStore_queryStateReferences(d, componentOrstatePath, revision) ==
  queryXReferencesTxn(d, componentOrstatePath, ToBool(revision), ToUInt(FALSE), 0)

\* getXReferrers with component_or_state = true: the keys of the component-keyed
\* table whose value list holds the path
getReferrersTxn(d, store_or_statePath, revision) ==
  LET ns == toNonSharedPathTxn(d, store_or_statePath)
      table == IF isValidPathTxn(d, store_or_statePath) THEN "references_cc"
               ELSE "references_cs"
      path == IF isValidPathTxn(d, store_or_statePath) THEN store_or_statePath
              ELSE ns.path
  IN IF ~isValidPathTxn(d, store_or_statePath) /\ ~isValidStatePathTxn(d, store_or_statePath)
     THEN QErr("NotValid")
     ELSE IF ~isValidPathTxn(d, store_or_statePath) /\ ns.diverges THEN QErr("diverges")
     ELSE QOk({k \in AllPaths : path \in d[table][k]})

\* queryReferrersTxn, which LocalStore::queryReferrers calls
queryReferrersTxn(d, storePath, revision) ==
  IF ~isRealisableComponentOrStatePath(d, storePath) THEN QErr("NotValid")
  ELSE getReferrersTxn(d, storePath, revision)

----------------------------------------------------------------------------
(* Derivers.                                                               *)

FOk(d, f) == [ok |-> TRUE, err |-> "", db |-> d, fs |-> f]

FErr(e, d, f) == [ok |-> FALSE, err |-> e, db |-> d, fs |-> f]

\* derivationFromPathTxn succeeds on a recipe whose file is on disk
drvReadable(f, drvPath) == drvPath \in Drvs /\ drvPath \in f

\* nixDB.queryStrings on a Derivers row: the list row, or nothing
deriversList(d, storePath) == d.derivers[storePath].list

queryDerivers(d, f, storePath, identifier, user) ==
  LET alldata == deriversList(d, storePath)
  IN IF ~isRealisablePath(d, storePath) THEN QErr("NotValid")
     ELSE IF user = "" THEN QErr("EmptyUser")
     ELSE IF d.derivers[storePath].kind = "str" THEN QErr("MalformedRow")
     ELSE IF \E x \in alldata : ~drvReadable(f, x) THEN QErr("NoDerivation")
     ELSE QOk({x \in alldata :
                 /\ (DrvInfo[x].stateIdentifier = identifier \/ identifier = "*")
                 /\ (DrvInfo[x].username = user \/ user = "*")})

\* the recipes mergeNewDerivationIntoListTxn deletes from disk
mergeDeleted(newdrv, drvs, deleteDrvs) ==
  {x \in drvs : /\ DrvInfo[x].stateIdentifier = DrvInfo[newdrv].stateIdentifier
                /\ DrvInfo[x].username = DrvInfo[newdrv].username
                /\ x # newdrv /\ deleteDrvs}

\* the merge that keeps the older recipes of the same pair
mergeNewDerivationIntoListTxn_KeepsOld(newdrv, drvs) == drvs \cup {newdrv}

\* the set mergeNewDerivationIntoListTxn returns
mergeNewDerivationIntoListTxn(newdrv, drvs) ==
  {x \in drvs : ~(/\ DrvInfo[x].stateIdentifier = DrvInfo[newdrv].stateIdentifier
                  /\ DrvInfo[x].username = DrvInfo[newdrv].username)} \cup {newdrv}

addStateDeriver(d, f, storePath, deriver) ==
  LET cur == queryDerivers(d, f, storePath, DrvInfo[deriver].stateIdentifier,
                           DrvInfo[deriver].username)
      upd == mergeNewDerivationIntoListTxn(deriver, cur.refs)
      f2 == f \ mergeDeleted(deriver, cur.refs, TRUE)
  IN IF ~isStorePath(storePath) THEN FErr("NotStorePath", d, f)
     ELSE IF deriver = "" THEN FOk(d, f)
     ELSE IF ~isStorePath(deriver) THEN FErr("NotStorePath", d, f)
     ELSE IF ~isRealisablePath(d, storePath) THEN FErr("NotValid", d, f)
     ELSE IF ~drvReadable(f, deriver) THEN FErr("NoDerivation", d, f)
     ELSE IF ~cur.ok THEN FErr(cur.err, d, f)
     ELSE FOk([d EXCEPT !.derivers[storePath] = [kind |-> "list", str |-> "", list |-> upd],
                        !.stateInfo = @ \cup {storePath}], f2)

setDeriver(d, f, storePath, deriver) ==
  IF ~isStorePath(storePath) THEN FErr("NotStorePath", d, f)
  ELSE IF deriver = "" THEN FOk(d, f)
  ELSE IF ~isStorePath(deriver) THEN FErr("NotStorePath", d, f)
  ELSE IF ~isRealisablePath(d, storePath) THEN FErr("NotValid", d, f)
  ELSE IF ~drvReadable(f, deriver) THEN FErr("NoDerivation", d, f)
  ELSE IF DrvInfo[deriver].isState THEN addStateDeriver(d, f, storePath, deriver)
  ELSE FOk([d EXCEPT !.derivers[storePath] = [kind |-> "str", str |-> deriver, list |-> {}]], f)

----------------------------------------------------------------------------
(* Registration and invalidation.                                          *)

setHash(d, storePath, hash) == [d EXCEPT !.validPaths[storePath] = hash]

setStateValid(d, statePath, drvPath) == [d EXCEPT !.validStatePaths[statePath] = drvPath]

\* the closure check left out
referencesValid_Skipped(d, references, newPaths) == TRUE

\* a closure check that accepts only references that are valid already
referencesValid_ValidOnly(d, references, newPaths) ==
  \A j \in references : isValidPathTxn(d, j)

\* the closure check of registerValidPaths: no reference is left that is
\* neither valid nor about to become valid
referencesValid(d, references, newPaths) ==
  \A j \in references : isValidPathTxn(d, j) \/ j \in newPaths

\* the loop body with a closure check that goes on to the next element instead
\* of throwing
registerValidPathsElem_NoThrow(d, f, info, newPaths, nowTs) ==
  LET isStorePath_b == isStorePath(info.path)
      d1 == IF isStorePath_b THEN setHash(d, info.path, info.hash)
            ELSE setStateValid(d, info.path, info.deriver)
      r2 == setReferences(d1, info.path, info.references, info.stateReferences,
                          info.revision, nowTs)
  IN IF ~isStorePath_b /\ ~isStatePath(info.path) THEN FErr("NotStatePath", d, f)
     ELSE IF ~r2.ok THEN FErr(r2.err, r2.db, f)
     ELSE IF ~referencesValid(r2.db, info.references, newPaths) THEN FOk(r2.db, f)
     ELSE IF isStorePath_b THEN setDeriver(r2.db, f, info.path, info.deriver)
     ELSE FOk(r2.db, f)

\* the body of the loop of registerValidPaths for one element of the batch
registerValidPathsElem(d, f, info, newPaths, nowTs) ==
  LET isStorePath_b == isStorePath(info.path)
      d1 == IF isStorePath_b THEN setHash(d, info.path, info.hash)
            ELSE setStateValid(d, info.path, info.deriver)
      r2 == setReferences(d1, info.path, info.references, info.stateReferences,
                          info.revision, nowTs)
  IN IF ~isStorePath_b /\ ~isStatePath(info.path) THEN FErr("NotStatePath", d, f)
     ELSE IF ~r2.ok THEN FErr(r2.err, r2.db, f)
     ELSE IF ~referencesValid(r2.db, info.references, newPaths)
     THEN FErr("InvalidReference", r2.db, f)
     ELSE IF isStorePath_b THEN setDeriver(r2.db, f, info.path, info.deriver)
     ELSE FOk(r2.db, f)

\* invalidatePath that clears the rows whether or not substitutes remain
invalidatePath_AlwaysClears(d, path) ==
  LET r == setReferences(d, path, {}, {}, MinusOne, 0)
      d2 == [r.db EXCEPT !.derivers[path] = [kind |-> "none", str |-> "", list |-> {}]]
  IN IF ~r.ok THEN r ELSE Ok([d2 EXCEPT !.validPaths[path] = NoRow])

invalidatePath(d, path) ==
  LET r == setReferences(d, path, {}, {}, MinusOne, 0)
      d2 == [r.db EXCEPT !.derivers[path] = [kind |-> "none", str |-> "", list |-> {}]]
  IN IF querySubstitutes(d, path) = <<>>
     THEN IF ~r.ok THEN r ELSE Ok([d2 EXCEPT !.validPaths[path] = NoRow])
     ELSE Ok([d EXCEPT !.validPaths[path] = NoRow])

\* the keys of a table in the order enumTable returns them
KeyOrder == <<"c1", "c2", "d0", "d1", "d2", "d3", "s1", "s2", "s3">>

\* the loop of clearSubstitutes over the keys of the Substitutes table
RECURSIVE clearSubstitutesFrom(_, _)
clearSubstitutesFrom(d, i) ==
  IF i > Len(KeyOrder) THEN Ok(d)
  ELSE IF d.substitutes[KeyOrder[i]] = <<>> THEN clearSubstitutesFrom(d, i + 1)
  ELSE LET d1 == [d EXCEPT !.substitutes[KeyOrder[i]] = <<>>]
           r == invalidatePath(d1, KeyOrder[i])
       IN IF isValidPathTxn(d1, KeyOrder[i]) THEN clearSubstitutesFrom(d1, i + 1)
          ELSE IF ~r.ok THEN r
          ELSE clearSubstitutesFrom(r.db, i + 1)

clearSubstitutes(d) == clearSubstitutesFrom(d, 1)

\* the transaction of deleteFromStore
deleteFromStore(d, path) ==
  LET referrers == getReferrersTxn(d, path, MinusOne)
  IN IF ~isStorePath(path) THEN Err("NotStorePath", d)
     ELSE IF ~isValidPathTxn(d, path) THEN Ok(d)
     ELSE IF ~referrers.ok THEN Err(referrers.err, d)
     ELSE IF \E i \in referrers.refs : i # path /\ isValidPathTxn(d, i)
     THEN Err("PathInUse", d)
     ELSE invalidatePath(d, path)

----------------------------------------------------------------------------
(* Values the variables take when the part of the program they belong to   *)
(* is at rest.                                                             *)

NoTxn == [active |-> FALSE, db |-> EmptyDB, newPaths |-> <<>>, done |-> <<>>]

NoOp == [op |-> "", path |-> "", err |-> "", res |-> ""]

NoWalk == [active |-> FALSE, start |-> "", cur |-> "", iter |-> 0]

\* a caller that is in no ingestion call
Idle == [at |-> "idle", op |-> "", path |-> "", src |-> ""]

IngestIdle ==
  /\ pc = [i \in Procs |-> Idle]
  /\ lock = [p \in CompPaths |-> 0]
  /\ mat = [p \in CompPaths |-> [copies |-> 0, commits |-> 0, failed |-> 0]]

\* no envelope has been exported
NoWire ==
  [archive |-> "", magic |-> 0, path |-> "", references |-> <<>>, deriver |-> "",
   signed |-> 0, signature |-> [key |-> "", digest |-> ""]]

XferIdle ==
  /\ wire = NoWire
  /\ dst = [db |-> EmptyDB, fs |-> {}]
  /\ disk = [p \in CompPaths |-> NoRow]
  /\ schema = "3"

xferVars == <<wire, dst, disk, schema>>

regVars == <<txn>>

ingestVars == <<pc, lock, mat>>

----------------------------------------------------------------------------
(* The shared-state table and the dereference loop.                        *)

\* LocalStore::setSharedState: one transaction around setSharedStateTxn
SetSharedState(fromExisting, toNew) ==
  /\ ~walk.active
  /\ db' = setSharedStateTxn(db, fromExisting, toNew)
  /\ last' = [op |-> "setSharedState", path |-> toNew, err |-> "", res |-> fromExisting]
  /\ UNCHANGED <<fs, now, walk, regVars, ingestVars, xferVars>>

\* toNonSharedPathTxn is entered: returnedPath = statePath
ToNonSharedCall(statePath) ==
  /\ ~walk.active
  /\ walk' = [active |-> TRUE, start |-> statePath, cur |-> statePath, iter |-> 0]
  /\ last' = [op |-> "toNonSharedCall", path |-> statePath, err |-> "", res |-> ""]
  /\ UNCHANGED <<db, fs, now, regVars, ingestVars, xferVars>>

\* the loop condition holds: returnedPath = sharedPath
ToNonSharedLoop ==
  /\ walk.active
  /\ querySharedStateTxn(db, walk.cur)
  /\ walk' = [walk EXCEPT !.cur = toNonSharedStep(db, walk.cur), !.iter = 1 - walk.iter]
  /\ UNCHANGED <<db, fs, now, last, regVars, ingestVars, xferVars>>

\* the loop condition fails: return returnedPath
ToNonSharedReturn ==
  /\ walk.active
  /\ ~querySharedStateTxn(db, walk.cur)
  /\ walk' = NoWalk
  /\ last' = [op |-> "toNonShared", path |-> walk.start, err |-> "", res |-> walk.cur]
  /\ UNCHANGED <<db, fs, now, regVars, ingestVars, xferVars>>

InitShared ==
  /\ db = EmptyDB
  /\ fs = {}
  /\ now = 1
  /\ txn = NoTxn
  /\ last = NoOp
  /\ walk = NoWalk
  /\ IngestIdle
  /\ XferIdle

NextShared ==
  \/ \E f \in StatePaths, t \in StatePaths : SetSharedState(f, t)
  \/ \E p \in StatePaths : ToNonSharedCall(p)
  \/ ToNonSharedLoop
  \/ ToNonSharedReturn

SpecShared == InitShared /\ [][NextShared]_vars

\* the loop is a running computation: it takes its next step when it has one
SpecSharedFair ==
  SpecShared /\ WF_vars(ToNonSharedLoop) /\ WF_vars(ToNonSharedReturn)

----------------------------------------------------------------------------
(* The registry: registration in a transaction, and the operations that    *)
(* each run in one transaction of their own.  The backend serialises       *)
(* overlapping transactions: while one is open no other writer commits,    *)
(* and a reader sees db, the committed tables.                             *)

\* the longest batch registerValidPaths is called with
MaxBatch == 2

RegPaths == CompPaths \cup {"s1"}

RegStateRefs == {"s1"}

\* the hash a path's contents have
HashOf(p) == "h1"

\* the ValidPathInfo values a caller passes for path p: c1 is a component that
\* bears state (its recipe is d1, it may refer to its state path), c2 is a plain
\* component, s1 is a state path registered with the recipe that made it
RegInfos(p) ==
  IF p = "c1"
  THEN [path : {p}, hash : {HashOf(p)}, references : {{}, {"c2"}},
        stateReferences : SUBSET RegStateRefs, deriver : {"", "d1"}, revision : {0}]
  ELSE IF isStorePath(p)
  THEN [path : {p}, hash : {HashOf(p)}, references : {{}, {"c1"}},
        stateReferences : {{}}, deriver : {"", "d0"}, revision : {0}]
  ELSE [path : {p}, hash : {HashOf(p)}, references : {{}, {"c1"}},
        stateReferences : {{}}, deriver : {"d1"}, revision : {0}]

Range(q) == {q[i] : i \in 1..Len(q)}

IsInjective(q) == \A i, j \in 1..Len(q) : q[i] = q[j] => i = j

Batches == {q \in UNION {[1..n -> RegPaths] : n \in 1..MaxBatch} : IsInjective(q)}

Done(op, path, err) == [op |-> op, path |-> path, err |-> err, res |-> ""]

\* the caller opens a transaction and enters registerValidPaths: newPaths is built
RegBegin(paths) ==
  /\ ~txn.active
  /\ txn' = [active |-> TRUE, db |-> db, newPaths |-> paths, done |-> <<>>]
  /\ last' = Done("registerValidPathsBegin", "", "")
  /\ UNCHANGED <<db, fs, now, walk, ingestVars, xferVars>>

\* one iteration of the loop; an exception leaves the function and the
\* transaction is aborted
RegElem(info) ==
  /\ txn.active
  /\ Len(txn.done) < Len(txn.newPaths)
  /\ info.path = txn.newPaths[Len(txn.done) + 1]
  /\ LET r == registerValidPathsElem(txn.db, fs, info, Range(txn.newPaths), now)
     IN /\ fs' = r.fs
        /\ IF r.ok
           THEN /\ txn' = [txn EXCEPT !.db = r.db, !.done = Append(@, info)]
                /\ last' = Done("registerValidPathsElem", "", "")
           ELSE /\ txn' = NoTxn
                /\ last' = Done("registerValidPaths", "", r.err)
  /\ UNCHANGED <<db, now, walk, ingestVars, xferVars>>

\* the loop is over; the caller commits
RegCommit ==
  /\ txn.active
  /\ Len(txn.done) = Len(txn.newPaths)
  /\ db' = txn.db
  /\ txn' = NoTxn
  /\ last' = Done("registerValidPaths", "", "")
  /\ UNCHANGED <<fs, now, walk, ingestVars, xferVars>>

\* deleteFromStore: the transaction, then deletePathWrapped
DeleteFromStoreOp(p) ==
  /\ ~txn.active
  /\ LET r == deleteFromStore(db, p)
     IN /\ db' = IF r.ok THEN r.db ELSE db
        /\ fs' = IF r.ok THEN fs \ {p} ELSE fs
        /\ last' = [op |-> "deleteFromStore", path |-> p, err |-> r.err,
                     res |-> IF r.ok /\ isValidPathTxn(db, p) THEN "unregistered" ELSE ""]
  /\ UNCHANGED <<now, walk, regVars, ingestVars, xferVars>>

InitReg ==
  /\ db = [EmptyDB EXCEPT !.validPaths = [p \in AllPaths |-> IF p \in Drvs THEN HashOf(p) ELSE NoRow]]
  /\ fs = Drvs
  /\ now = 1
  /\ txn = NoTxn
  /\ last = NoOp
  /\ walk = NoWalk
  /\ IngestIdle
  /\ XferIdle

NextReg ==
  \/ \E q \in Batches : RegBegin(q)
  \/ \E p \in RegPaths : \E info \in RegInfos(p) : RegElem(info)
  \/ RegCommit
  \/ \E p \in CompPaths : DeleteFromStoreOp(p)

SpecReg == InitReg /\ [][NextReg]_vars

\* the rows of one registered element, as a reader of database d sees them
Visible(d, info) ==
  IF isStorePath(info.path)
  THEN /\ d.validPaths[info.path] = info.hash
       /\ d.references_cc[info.path] = info.references
       /\ d.references_cs[info.path] = info.stateReferences
       /\ info.deriver # "" =>
            \/ d.derivers[info.path].str = info.deriver
            \/ info.deriver \in d.derivers[info.path].list
  ELSE /\ d.validStatePaths[info.path] = info.deriver
       /\ nixDB_queryStateReferences(d, "references_sc", info.path, 0, 0).refs = info.references
       /\ nixDB_queryStateReferences(d, "references_ss", info.path, 0, 0).refs
            = info.stateReferences

\* C2: registerValidPaths is all-or-nothing: while the registration runs no
\* reader sees any of its rows; the committed tables change only at the commit
\* of a batch every element of which was registered, and then the hash,
\* reference and deriver rows of every element are visible together; when a
\* step fails nothing becomes visible.
C2_RegisterAllOrNothing ==
  [][txn.active =>
       \/ db' = db
       \/ /\ ~txn'.active
          /\ Len(txn.done) = Len(txn.newPaths)
          /\ \A i \in 1..Len(txn.done) : Visible(db', txn.done[i])]_vars

\* a registration is under way: c1 is valid in the transaction and not for readers
C2_Witness ==
  /\ txn.active
  /\ isValidPathTxn(txn.db, "c1")
  /\ ~isValidPathTxn(db, "c1")
  /\ txn.db.references_cc["c1"] # {}

\* a reference of info that is neither valid nor a path of the batch
HasInvalidReference(info) ==
  \E j \in info.references : ~isValidPathTxn(txn.db, j) /\ j \notin Range(txn.newPaths)

\* C4: registerValid refuses, without registering the path, whenever some
\* element of refs is neither already valid nor a path of the same batch.
C4_RefusesInvalidReference ==
  [][\A p \in RegPaths : \A info \in RegInfos(p) :
       (HasInvalidReference(info) /\ RegElem(info)) =>
          /\ ~txn'.active
          /\ last'.err # ""
          /\ db' = db
          /\ ~isValidPathTxn(db, info.path) => ~isValidPathTxn(db', info.path)]_vars

\* C36: registerValidPaths accepts a batch whose elements reference each
\* other regardless of the order of the batch: when every component reference
\* of an element is already valid or is itself an element of the batch
\* (forward references and cycles included) the loop goes on without an
\* error, and at the commit all elements of the batch become valid.
C36_BatchOrderFree ==
  /\ [][\A p \in RegPaths : \A info \in RegInfos(p) :
          (txn.active /\ ~HasInvalidReference(info) /\ RegElem(info)) =>
             /\ txn'.active
             /\ last'.err = ""
             /\ txn'.done = Append(txn.done, info)]_vars
  /\ [][RegCommit =>
          \A i \in 1..Len(txn.newPaths) :
            isValidComponentOrStatePathTxn(db', txn.newPaths[i])]_vars

\* the loop has accepted both elements of the batch <<c1, c2>>, in which c1
\* refers forward to c2 and c2 back to c1, and neither was valid before
C36_Witness ==
  /\ txn.active
  /\ txn.newPaths = <<"c1", "c2">>
  /\ Len(txn.done) = 2
  /\ txn.done[1].references = {"c2"}
  /\ txn.done[2].references = {"c1"}
  /\ ~isValidPathTxn(db, "c1")
  /\ ~isValidPathTxn(db, "c2")
  /\ isValidPathTxn(txn.db, "c1")
  /\ isValidPathTxn(txn.db, "c2")

\* a registration has just been refused for an invalid reference
C4_Witness ==
  /\ ~txn.active
  /\ last = Done("registerValidPaths", "", "InvalidReference")

----------------------------------------------------------------------------
(* The registry operations, each in one transaction of its own.            *)

\* the paths addToStore and addTextToStore compute: c1 is a source path, c2 a
\* text path whose references are {c1}
SourcePaths == {"c1"}

TextPaths == {"c2"}

TextRefs(p) == {"c1"}

\* registerValidPath: a batch of one, in a transaction the caller commits
RegisterValidPathOp(info) ==
  /\ LET r == registerValidPathsElem(db, fs, info, {info.path}, now)
     IN /\ db' = IF r.ok THEN r.db ELSE db
        /\ fs' = r.fs
        /\ last' = Done("registerValidPath", info.path, r.err)
  /\ UNCHANGED <<now, walk, regVars, ingestVars, xferVars>>

\* a caller sets the references of a path and commits
SetReferencesOp(p, references, stateReferences, revision) ==
  /\ LET r == setReferences(db, p, references, stateReferences, revision, now)
     IN /\ db' = IF r.ok THEN r.db ELSE db
        /\ last' = Done("setReferences", p, r.err)
  /\ UNCHANGED <<fs, now, walk, regVars, ingestVars, xferVars>>

RegisterSubstituteOp(p, sub) ==
  /\ LET r == registerSubstitute(db, p, sub)
     IN /\ db' = IF r.ok THEN r.db ELSE db
        /\ last' = Done("registerSubstitute", p, r.err)
  /\ UNCHANGED <<fs, now, walk, regVars, ingestVars, xferVars>>

ClearSubstitutesOp ==
  /\ LET r == clearSubstitutes(db)
     IN /\ db' = IF r.ok THEN r.db ELSE db
        /\ last' = Done("clearSubstitutes", "", r.err)
  /\ UNCHANGED <<fs, now, walk, regVars, ingestVars, xferVars>>

\* addToStore with no other caller: changed is whether the source changed
\* while it was copied
AddToStoreOp(p, changed) ==
  /\ LET r == registerValidPathsElem(db, fs \cup {p},
                [path |-> p, hash |-> HashOf(p), references |-> {},
                 stateReferences |-> {}, deriver |-> "", revision |-> MinusOne],
                {p}, now)
     IN IF isValidPathTxn(db, p)
        THEN /\ last' = Done("addToStore", p, "")
             /\ UNCHANGED <<db, fs>>
        ELSE IF changed
        THEN /\ fs' = fs \cup {p}
             /\ last' = Done("addToStore", p, "HashMismatch")
             /\ UNCHANGED db
        ELSE /\ fs' = r.fs
             /\ db' = IF r.ok THEN r.db ELSE db
             /\ last' = Done("addToStore", p, r.err)
  /\ UNCHANGED <<now, walk, regVars, ingestVars, xferVars>>

\* addTextToStore with no other caller
AddTextToStoreOp(p) ==
  /\ LET r == registerValidPathsElem(db, fs \cup {p},
                [path |-> p, hash |-> HashOf(p), references |-> TextRefs(p),
                 stateReferences |-> {}, deriver |-> "", revision |-> 0],
                {p}, now)
     IN IF isValidPathTxn(db, p)
        THEN /\ last' = Done("addTextToStore", p, "")
             /\ UNCHANGED <<db, fs>>
        ELSE /\ fs' = r.fs
             /\ db' = IF r.ok THEN r.db ELSE db
             /\ last' = Done("addTextToStore", p, r.err)
  /\ UNCHANGED <<now, walk, regVars, ingestVars, xferVars>>

\* the ValidPathInfo values of the single registrations
GraphInfos(p) == {info \in RegInfos(p) : info.deriver # "d0"}

NextGraph ==
  \/ \E p \in RegPaths : \E info \in GraphInfos(p) : RegisterValidPathOp(info)
  \/ \E p \in CompPaths : \E rc \in {{}, CompPaths \ {p}} : SetReferencesOp(p, rc, {}, 0)
  \/ \E p \in CompPaths, sub \in RegSubs : RegisterSubstituteOp(p, sub)
  \/ ClearSubstitutesOp
  \/ \E p \in CompPaths : DeleteFromStoreOp(p)
  \/ \E p \in SourcePaths, changed \in BOOLEAN : AddToStoreOp(p, changed)
  \/ \E p \in TextPaths : AddTextToStoreOp(p)

SpecGraph == InitReg /\ [][NextGraph]_vars

\* the outgoing references of a valid state path: its latest rows
LatestRefs(d, table, p) == nixDB_queryStateReferences(d, table, p, 0, 0).refs

\* C3: closure law: for every valid path P and every outgoing reference Q of P
\* in any of the four relations, Q is valid or has substitutes.
C3_ClosureLaw ==
  /\ \A p \in AllPaths : isValidPathTxn(db, p) =>
       /\ \A q \in db.references_cc[p] : isRealisablePath(db, q)
       /\ \A q \in db.references_cs[p] : isRealisableStatePath(db, q)
  /\ \A p \in AllPaths : isValidStatePathTxn(db, p) =>
       /\ \A q \in LatestRefs(db, "references_sc", p) : isRealisablePath(db, q)
       /\ \A q \in LatestRefs(db, "references_ss", p) : isRealisableStatePath(db, q)

\* C5: cleanup invariant I3: every key with a row in Derivers, in a reference
\* table or in StateInfo is realisable.
C5_CleanupInvariant ==
  /\ \A k \in AllPaths :
       (\/ db.derivers[k].kind # "none"
        \/ db.references_cc[k] # {}
        \/ db.references_cs[k] # {}
        \/ k \in db.stateInfo) => isRealisablePath(db, k)
  /\ \A r \in db.references_sc \cup db.references_ss : isRealisableStatePath(db, r.path)

\* C6: after a component path P has been registered valid with component
\* references R, queryReferences(P) with no revision returns exactly R.
C6_QueryReferencesReturnsComponentRefs ==
  (/\ last.op \in {"registerValidPath", "addTextToStore", "addToStore"}
   /\ last.err = ""
   /\ isStorePath(last.path))
  => LocalStore_queryReferences(db, last.path, 0) = QOk(db.references_cc[last.path])

\* path p has no row in a component-keyed reference table or in Derivers
NoRowsOf(d, p) ==
  /\ d.references_cc[p] = {}
  /\ d.references_cs[p] = {}
  /\ d.derivers[p].kind = "none"

\* C14: clearSubstitutes() succeeds from every reachable registry state;
\* afterwards the Substitutes table is empty and every key that had
\* substitutes and was not valid has no reference or deriver rows left.
C14_ClearSubstitutesSucceeds ==
  [][ClearSubstitutesOp =>
       /\ last'.err = ""
       /\ \A p \in AllPaths : db'.substitutes[p] = <<>>
       /\ \A p \in AllPaths :
            (db.substitutes[p] # <<>> /\ ~isValidPathTxn(db, p)) => NoRowsOf(db', p)]_vars

\* C15: invalidating a valid component P with no substitutes removes its
\* validity row, its component and state reference rows and its Derivers row;
\* with substitutes present it removes only the validity row.
C15_InvalidateRows ==
  [][\A p \in CompPaths :
       (DeleteFromStoreOp(p) /\ isValidPathTxn(db, p) /\ last'.err = "") =>
          IF querySubstitutes(db, p) = <<>>
          THEN ~isValidPathTxn(db', p) /\ NoRowsOf(db', p)
          ELSE db' = [db EXCEPT !.validPaths[p] = NoRow]]_vars

\* c1, which had a recipe, was unregistered while it had no substitutes
C15_Witness ==
  /\ last = [op |-> "deleteFromStore", path |-> "c1", err |-> "", res |-> "unregistered"]
  /\ querySubstitutes(db, "c1") = <<>>
  /\ "c1" \in db.stateInfo
  /\ NoRowsOf(db, "c1")

\* a valid path other than p refers to p
HasValidReferrer(d, p) ==
  \E q \in AllPaths : q # p /\ isValidPathTxn(d, q) /\ p \in d.references_cc[q]

\* C16 as stated: deleting a valid path with no valid referrer and a non-empty
\* substitute list clears its reference rows and leaves its Substitutes row.
C16_DeleteClearsReferences ==
  [][\A p \in CompPaths :
       (/\ DeleteFromStoreOp(p) /\ isValidPathTxn(db, p)
        /\ ~HasValidReferrer(db, p) /\ querySubstitutes(db, p) # <<>>)
       => /\ db'.references_cc[p] = {} /\ db'.references_cs[p] = {}
          /\ db'.substitutes[p] = db.substitutes[p]]_vars

\* C16 amended: such a deletion removes the validity row and leaves the
\* reference rows and the Substitutes row of the path unchanged.
C16_DeleteKeepsReferences ==
  [][\A p \in CompPaths :
       (/\ DeleteFromStoreOp(p) /\ isValidPathTxn(db, p)
        /\ ~HasValidReferrer(db, p) /\ querySubstitutes(db, p) # <<>>)
       => /\ last'.err = "" /\ ~isValidPathTxn(db', p)
          /\ db'.references_cc[p] = db.references_cc[p]
          /\ db'.references_cs[p] = db.references_cs[p]
          /\ db'.substitutes[p] = db.substitutes[p]]_vars

\* c1 was unregistered while it had substitutes and references
C16_Witness ==
  /\ last = [op |-> "deleteFromStore", path |-> "c1", err |-> "", res |-> "unregistered"]
  /\ querySubstitutes(db, "c1") # <<>>
  /\ db.references_cc["c1"] # {}

\* the valid paths other than p that refer to p: components through the
\* component-component table, state paths through their latest
\* state-component row
ValidReferrers(d, p) ==
  {q \in AllPaths : q # p /\ isValidPathTxn(d, q) /\ p \in d.references_cc[q]}
    \cup {q \in AllPaths : isValidStatePathTxn(d, q) /\ p \in LatestRefs(d, "references_sc", q)}

\* C17: deleteFromStore(P) on a valid P fails with PathInUse whenever some
\* valid path other than P refers to P, and then neither the registry nor the
\* filesystem entry of P changes; otherwise (also when only P refers to P) it
\* is not blocked.
C17_PathInUse ==
  [][\A p \in CompPaths :
       (DeleteFromStoreOp(p) /\ isValidPathTxn(db, p)) =>
          IF ValidReferrers(db, p) # {}
          THEN last'.err = "PathInUse" /\ db' = db /\ fs' = fs
          ELSE last'.err = ""]_vars

\* C18: referrer duality: for all valid paths P, Q and every revision r,
\* Q is in queryReferences(P, r) if and only if P is in queryReferrers(Q, r).
C18_ReferrerDuality ==
  \A p \in AllPaths, q \in AllPaths, r \in {0, 1} :
    (isValidComponentOrStatePathTxn(db, p) /\ isValidComponentOrStatePathTxn(db, q)) =>
      LET refs == LocalStore_queryReferences(db, p, r)
          referrers == queryReferrersTxn(db, q, r)
      IN (refs.ok /\ q \in refs.refs) <=> (referrers.ok /\ p \in referrers.refs)

----------------------------------------------------------------------------
(* Aliased state paths: registration of state paths, setSharedState and    *)
(* setReferences on state paths, with the clock running.                   *)

\* the clock moves on
Tick ==
  /\ now < MaxTime
  /\ now' = now + 1
  /\ UNCHANGED <<db, fs, last, walk, regVars, ingestVars, xferVars>>

\* the state paths a caller registers, and the state references it writes
AliasValid == {"s1", "s3"}

AliasStateRefs == {{}, {"s3"}}

AliasInfo(p) ==
  [path |-> p, hash |-> HashOf(p), references |-> {}, stateReferences |-> {},
   deriver |-> "d1", revision |-> 0]

NextAlias ==
  \/ \E p \in AliasValid : RegisterValidPathOp(AliasInfo(p))
  \/ \E f \in StatePaths, t \in StatePaths : SetSharedState(f, t)
  \/ \E p \in StatePaths, rs \in AliasStateRefs : SetReferencesOp(p, {}, rs, 0)
  \/ Tick

SpecAlias == InitReg /\ [][NextAlias]_vars

\* p is aliased and its chain of SharedState rows ends
ChainEnds(d, p) == querySharedStateTxn(d, p) /\ ~toNonSharedPathTxn(d, p).diverges

Revs == {0, 1}

\* C7: alias transparency on reads: for a SharedState chain from P1 to the
\* unshared P3, queryReferences(P1) and queryStateReferences(P1) return what the
\* same queries return on P3.
C7_AliasTransparentReads ==
  \A p1 \in StatePaths : ChainEnds(db, p1) =>
    LET p3 == toNonSharedPathTxn(db, p1).path
    IN \A r \in Revs :
         /\ LocalStore_queryReferences(db, p1, r) = LocalStore_queryReferences(db, p3, r)
         /\ LocalStore_queryStateReferences(db, p1, r)
              = LocalStore_queryStateReferences(db, p3, r)

\* the rows of a revisioned table that are not keyed by path p
RowsNotOf(d, table, p) == {r \in d[table] : r.path # p}

\* C8: alias transparency on writes: setReferences(P1, ...) on an aliased P1
\* writes only the state-reference rows keyed by the unshared tip P3 and leaves
\* every row keyed by another path of the chain as it was.
C8_AliasTransparentWrites ==
  [][\A p1 \in StatePaths : \A rs \in AliasStateRefs :
       (ChainEnds(db, p1) /\ SetReferencesOp(p1, {}, rs, 0)) =>
          LET p3 == toNonSharedPathTxn(db, p1).path
          IN /\ RowsNotOf(db', "references_sc", p3) = RowsNotOf(db, "references_sc", p3)
             /\ RowsNotOf(db', "references_ss", p3) = RowsNotOf(db, "references_ss", p3)]_vars

----------------------------------------------------------------------------
(* Concurrent ingestion: every caller runs addToStore, addTextToStore or   *)
(* importPath once; PathLocks is a mutex per destination path that the     *)
(* holder's scope releases, also when an exception leaves it.              *)

IngestOps == {"addToStore", "addTextToStore", "importPath"}

\* the destination paths an operation can compute
IngestPaths(op) ==
  IF op = "addToStore" THEN SourcePaths
  ELSE IF op = "addTextToStore" THEN TextPaths
  ELSE CompPaths

\* what a file system entry can hold
Contents == {"x1", "x2"}

\* hashPath / hashString of contents
hashPath(x) == IF x = "x1" THEN "h1" ELSE IF x = "x2" THEN "h2" ELSE "h0"

\* Path Naming read backwards: the contents (and, for a text path, the
\* references) from which the name of each destination path is computed
NamedFor(p) ==
  IF p \in TextPaths THEN [type |-> "text", contents |-> "x2", references |-> TextRefs(p)]
  ELSE [type |-> "source", contents |-> "x1", references |-> {}]

\* the contents a caller can hand to the operation for destination p: the
\* source or the string the name of p is computed from, or whatever archive a
\* stream that names p carries
IngestSources(op, p) ==
  IF op = "importPath" THEN Contents ELSE {NamedFor(p).contents}

\* what the operation registers for destination p: an archive of c2 carries
\* the references of c2
IngestInfo(op, p, hash) ==
  [path |-> p, hash |-> hash,
   references |-> IF p \in TextPaths THEN TextRefs(p) ELSE {},
   stateReferences |-> {}, deriver |-> "",
   revision |-> IF op = "addToStore" THEN MinusOne ELSE 0]

\* the test before the lock is taken
firstCheck(d, dstPath) == isValidPathTxn(d, dstPath)

\* the same test without the second look
recheckUnderLock_Skipped(d, dstPath) == FALSE

\* the test again, with the lock held
recheckUnderLock(d, dstPath) == isValidPathTxn(d, dstPath)

\* the call computes its destination path
IngestCall(i, op, p, src) ==
  /\ pc[i].at = "idle"
  /\ pc' = [pc EXCEPT ![i] = [at |-> "check", op |-> op, path |-> p, src |-> src]]
  /\ UNCHANGED <<db, fs, now, last, walk, regVars, lock, mat, xferVars>>

\* if (!isValidPath(dstPath)): a valid path is returned at once
IngestFirstCheck(i) ==
  /\ pc[i].at = "check"
  /\ pc' = [pc EXCEPT ![i].at = IF firstCheck(db, pc[i].path) THEN "done" ELSE "wait"]
  /\ UNCHANGED <<db, fs, now, last, walk, regVars, lock, mat, xferVars>>

\* PathLocks outputLock(dstPath) returns when the lock is free
IngestLock(i) ==
  /\ pc[i].at = "wait"
  /\ lock[pc[i].path] = 0
  /\ lock' = [lock EXCEPT ![pc[i].path] = i]
  /\ pc' = [pc EXCEPT ![i].at = "locked"]
  /\ UNCHANGED <<db, fs, now, last, walk, regVars, mat, xferVars>>

\* the second if (!isValidPath(dstPath))
IngestRecheck(i) ==
  /\ pc[i].at = "locked"
  /\ pc' = [pc EXCEPT ![i].at = IF recheckUnderLock(db, pc[i].path) THEN "skip"
                                ELSE "materialise"]
  /\ UNCHANGED <<db, fs, now, last, walk, regVars, lock, mat, xferVars>>

\* an exception that leaves the block with the lock still held
releaseOnThrow_Held(lk, p) == lk

\* an exception leaves the block in which outputLock is declared: the lock
\* object goes out of scope and the lock is released
releaseOnThrow(lk, p) == [lk EXCEPT ![p] = 0]

\* the contents are put at dstPath (copied is what arrives there);
\* addToStore compares the hash of the copy with the hash of the source and
\* throws when the source changed meanwhile
IngestMaterialise(i, copied) ==
  /\ pc[i].at = "materialise"
  /\ copied # pc[i].src => pc[i].op = "addToStore"
  /\ fs' = fs \cup {pc[i].path}
  /\ disk' = [disk EXCEPT ![pc[i].path] = copied]
  /\ IF pc[i].op = "addToStore" /\ hashPath(pc[i].src) # hashPath(copied)
     THEN /\ mat' = [mat EXCEPT ![pc[i].path].copies = @ + 1,
                                ![pc[i].path].failed = @ + 1]
          /\ lock' = releaseOnThrow(lock, pc[i].path)
          /\ pc' = [pc EXCEPT ![i].at = "failed"]
     ELSE /\ mat' = [mat EXCEPT ![pc[i].path].copies = @ + 1]
          /\ pc' = [pc EXCEPT ![i].at = "register"]
          /\ UNCHANGED lock
  /\ UNCHANGED <<db, now, last, walk, regVars, wire, dst, schema>>

\* Transaction txn; registerValidPath(...); txn.commit()
IngestRegister(i) ==
  /\ pc[i].at = "register"
  /\ LET hash == IF pc[i].op = "addToStore" THEN hashPath(pc[i].src)
                 ELSE hashPath(disk[pc[i].path])
         r == registerValidPathsElem(db, fs, IngestInfo(pc[i].op, pc[i].path, hash),
                                     {pc[i].path}, now)
     IN IF r.ok
        THEN /\ db' = r.db
             /\ mat' = [mat EXCEPT ![pc[i].path].commits = @ + 1]
             /\ pc' = [pc EXCEPT ![i].at = "skip"]
             /\ UNCHANGED lock
        ELSE /\ mat' = [mat EXCEPT ![pc[i].path].failed = @ + 1]
             /\ lock' = releaseOnThrow(lock, pc[i].path)
             /\ pc' = [pc EXCEPT ![i].at = "failed"]
             /\ UNCHANGED db
  /\ UNCHANGED <<fs, now, last, walk, regVars, xferVars>>

\* the lock's scope ends: return dstPath
IngestUnlock(i) ==
  /\ pc[i].at = "skip"
  /\ lock' = [lock EXCEPT ![pc[i].path] = 0]
  /\ pc' = [pc EXCEPT ![i].at = "done"]
  /\ UNCHANGED <<db, fs, now, last, walk, regVars, mat, xferVars>>

NextIngest ==
  \/ \E i \in Procs, op \in IngestOps : \E p \in IngestPaths(op) :
       \E src \in IngestSources(op, p) : IngestCall(i, op, p, src)
  \/ \E i \in Procs : IngestFirstCheck(i)
  \/ \E i \in Procs : IngestLock(i)
  \/ \E i \in Procs : IngestRecheck(i)
  \/ \E i \in Procs, copied \in Contents : IngestMaterialise(i, copied)
  \/ \E i \in Procs : IngestRegister(i)
  \/ \E i \in Procs : IngestUnlock(i)

SpecIngest == InitReg /\ [][NextIngest]_vars

\* every call that has started goes on until it returns or throws; a caller
\* blocked on a lock goes on when the lock is free
SpecIngestFair ==
  /\ SpecIngest
  /\ \A i \in Procs :
       WF_vars(\/ IngestFirstCheck(i) \/ IngestLock(i) \/ IngestRecheck(i)
               \/ (\E copied \in Contents : IngestMaterialise(i, copied))
               \/ IngestRegister(i) \/ IngestUnlock(i))

\* the callers whose destination is p
Callers(p) == {i \in Procs : pc[i].path = p}

\* C1: for any interleaving of concurrent addToStore, addTextToStore and
\* importPath calls with the same destination P, the registration of P is
\* committed at most once and at most one materialisation is kept; when all
\* the callers have returned P, it was materialised exactly once and
\* registered exactly once, so the others returned without materialising.
C1_MaterialisedOnce ==
  \A p \in CompPaths :
    /\ mat[p].commits <= 1
    /\ mat[p].copies - mat[p].failed <= 1
    /\ (Callers(p) # {} /\ \A i \in Callers(p) : pc[i].at = "done") =>
         /\ mat[p].copies = 1
         /\ mat[p].commits = 1
         /\ isValidPathTxn(db, p)

\* one caller of c1 has returned and another one, holding the lock, has found
\* c1 valid at the second test
C1_Witness ==
  \E i, j \in Procs :
    /\ i # j
    /\ pc[i] = [at |-> "done", op |-> "addToStore", path |-> "c1", src |-> "x1"]
    /\ pc[j].path = "c1"
    /\ pc[j].at = "skip"
    /\ pc[j].op = "importPath"
    /\ mat["c1"].copies = 1

----------------------------------------------------------------------------
(* Derivers of state-bearing components: registrations and direct          *)
(* addStateDeriver calls, each committed by its caller.                    *)

StateDrvs == {x \in Drvs : DrvInfo[x].isState}

\* a component is registered without references, with or without a recipe
DeriverInfos(p) ==
  [path : {p}, hash : {HashOf(p)}, references : {{}}, stateReferences : {{}},
   deriver : {"", "d0", "d1"}, revision : {0}]

AddStateDeriverOp(p, deriver) ==
  /\ LET r == addStateDeriver(db, fs, p, deriver)
     IN /\ db' = IF r.ok THEN r.db ELSE db
        /\ fs' = r.fs
        /\ last' = [op |-> "addStateDeriver", path |-> p, err |-> r.err, res |-> deriver]
  /\ UNCHANGED <<now, walk, regVars, ingestVars, xferVars>>

NextDeriver ==
  \/ \E p \in CompPaths : \E info \in DeriverInfos(p) : RegisterValidPathOp(info)
  \/ \E p \in CompPaths, x \in StateDrvs : AddStateDeriverOp(p, x)

SpecDeriver == InitReg /\ [][NextDeriver]_vars

\* recipes x and y declare the same (stateIdentifier, owner)
SamePair(x, y) ==
  /\ DrvInfo[x].stateIdentifier = DrvInfo[y].stateIdentifier
  /\ DrvInfo[x].username = DrvInfo[y].username

\* C11: deriver-merge law: when addStateDeriver(P, D) is followed by
\* addStateDeriver(P, D') with D' # D of the same (stateIdentifier, owner),
\* queryDerivers(P, ident, user) = {D'} and the recipe file of D is gone.
C11_DeriverMerge ==
  [][\A p \in CompPaths : \A x \in StateDrvs :
       (/\ last.op = "addStateDeriver" /\ last.err = "" /\ last.path = p
        /\ last.res # x /\ SamePair(last.res, x)
        /\ AddStateDeriverOp(p, x)
        /\ last'.err = "")
       => /\ queryDerivers(db', fs', p, DrvInfo[x].stateIdentifier, DrvInfo[x].username)
               = QOk({x})
          /\ last.res \notin fs']_vars

\* d2 was added to c1 right after d1, which has the same pair
C11_Witness ==
  /\ last = [op |-> "addStateDeriver", path |-> "c1", err |-> "", res |-> "d2"]
  /\ db.derivers["c1"].list = {"d2"}
  /\ "d1" \notin fs

\* the (stateIdentifier, owner) pairs of the recipes
Pairs == {<<DrvInfo[x].stateIdentifier, DrvInfo[x].username>> : x \in StateDrvs}

\* C12: ownership invariant I6: addStateDeriver on P leaves exactly the added
\* recipe for its pair and leaves the recipe stored for every other pair as
\* it was.
C12_OwnershipPerPair ==
  [][\A p \in CompPaths : \A x \in StateDrvs :
       (AddStateDeriverOp(p, x) /\ last'.err = "")
       => /\ queryDerivers(db', fs', p, DrvInfo[x].stateIdentifier, DrvInfo[x].username)
               = QOk({x})
          /\ \A pr \in Pairs :
               pr # <<DrvInfo[x].stateIdentifier, DrvInfo[x].username>> =>
                 queryDerivers(db', fs', p, pr[1], pr[2])
                   = queryDerivers(db, fs, p, pr[1], pr[2])]_vars

----------------------------------------------------------------------------
(* Substitute lists: callers register substitutes for component paths and  *)
(* clear the table.                                                        *)

\* the substitutes callers register: three programs
SubstPrograms == {"fetchA", "fetchB", "fetchC"}

SubstSubs == [deriver : {"d0"}, program : SubstPrograms, args : {<<>>}]

NextSubst ==
  \/ \E p \in CompPaths, sub \in SubstSubs : RegisterSubstituteOp(p, sub)
  \/ ClearSubstitutesOp

SpecSubst == InitReg /\ [][NextSubst]_vars

\* the list without the substitutes equal to sub
WithoutSub(subs, sub) == SelectSeq(subs, LAMBDA x : ~SubstituteEq(x, sub))

\* C13: registerSubstitute(P, S) leaves S at the front of P's list in every
\* case (prepended if absent, moved to the front if present) and keeps the
\* relative order of the other substitutes.
C13_RegisterSubstituteFront ==
  [][\A p \in CompPaths : \A sub \in SubstSubs :
       RegisterSubstituteOp(p, sub) =>
         readSubstitutes(db', p) = <<sub>> \o WithoutSub(readSubstitutes(db, p), sub)]_vars

-----------------------------------------------------------------------------
(* Export and import of a component path: the envelope written by          *)
(* exportPath, and importPath reading it into another store.               *)

EXPORT_MAGIC == 1163413838

\* the exporter's secret key and the public key the importer verifies with
SecretKey == "key1"

PublicKeyOf == "key1"

NoSignature == [key |-> "", digest |-> ""]

\* writeStringSet: the elements of a set in the set's order
RECURSIVE SeqOfSetFrom(_, _)
SeqOfSetFrom(S, i) ==
  IF i > Len(KeyOrder) THEN <<>>
  ELSE (IF KeyOrder[i] \in S THEN <<KeyOrder[i]>> ELSE <<>>) \o SeqOfSetFrom(S, i + 1)

writeStringSet(S) == SeqOfSetFrom(S, 1)

\* what the hashing sink of exportPath has seen when the hash is finished
exportHashed(archive, magic, path, references, deriver) ==
  <<archive, magic, path, references, deriver>>

\* importPath that finishes the hash before it reads the deriver
importHashed_BeforeDeriver(env) ==
  <<env.archive, env.magic, env.path, env.references>>

\* what the hashing source of importPath has seen when the hash is finished
importHashed(env) ==
  <<env.archive, env.magic, env.path, env.references, env.deriver>>

\* queryDeriver: the Derivers row is read as one string, and the recipe it
\* names is loaded whether or not there was a row
queryDeriver(d, f, storePath) ==
  LET b == d.derivers[storePath].kind = "str"
      deriver == IF b THEN d.derivers[storePath].str ELSE ""
  IN IF ~isRealisablePath(d, storePath) THEN [ok |-> FALSE, err |-> "NotValid", deriver |-> ""]
     ELSE IF ~drvReadable(f, deriver) THEN [ok |-> FALSE, err |-> "NoDerivation", deriver |-> ""]
     ELSE IF DrvInfo[deriver].isState THEN [ok |-> FALSE, err |-> "StateDeriver", deriver |-> ""]
     ELSE [ok |-> TRUE, err |-> "", deriver |-> deriver]

ExportErr(e) == [ok |-> FALSE, err |-> e, env |-> NoWire]

exportPath(d, f, path, sign) ==
  LET refs == queryXReferencesTxn(d, path, TRUE, 0, 0)
      dr == queryDeriver(d, f, path)
      archive == HashOf(path)
      references == writeStringSet(refs.refs)
      hash == exportHashed(archive, EXPORT_MAGIC, path, references, dr.deriver)
  IN IF ~isStorePath(path) THEN ExportErr("NotStorePath")
     ELSE IF ~isValidPathTxn(d, path) THEN ExportErr("NotValid")
     ELSE IF ~refs.ok THEN ExportErr(refs.err)
     ELSE IF ~dr.ok THEN ExportErr(dr.err)
     ELSE [ok |-> TRUE, err |-> "",
           env |-> [archive |-> archive, magic |-> EXPORT_MAGIC, path |-> path,
                    references |-> references, deriver |-> dr.deriver,
                    signed |-> IF sign THEN 1 ELSE 0,
                    signature |-> IF sign THEN [key |-> SecretKey, digest |-> hash]
                                  ELSE NoSignature]]

\* importPath that goes on when a required signature is absent
signaturePresent_Skipped(requireSignature, haveSignature) == TRUE

\* the first signature check of importPath
signaturePresent(requireSignature, haveSignature) ==
  ~(requireSignature /\ ~haveSignature)

\* openssl rsautl -verify: fails on a signature made with another key, and
\* otherwise prints the signed hash, which must be the hash of what was read
signatureVerifies(env) ==
  IF env.signature.key # PublicKeyOf THEN "SignatureInvalid"
  ELSE IF env.signature.digest # importHashed(env) THEN "SignatureMismatch"
  ELSE ""

importPath(d, f, requireSignature, env, nowTs) ==
  LET dstPath == env.path
      references == Range(env.references)
      haveSignature == env.signed = 1
      f1 == f \cup {dstPath}
      deriver == IF env.deriver # "" /\ isValidPathTxn(d, env.deriver)
                 THEN env.deriver ELSE ""
      info == [path |-> dstPath, hash |-> env.archive, references |-> references,
               stateReferences |-> {}, deriver |-> deriver, revision |-> 0]
      r == registerValidPathsElem(d, f1, info, {dstPath}, nowTs)
  IN IF env.magic # EXPORT_MAGIC THEN FErr("WrongFormat", d, f)
     ELSE IF ~isStorePath(dstPath) THEN FErr("NotStorePath", d, f)
     ELSE IF \E x \in references : ~isStorePath(x) THEN FErr("NotStorePath", d, f)
     ELSE IF env.deriver # "" /\ ~isStorePath(env.deriver) THEN FErr("NotStorePath", d, f)
     ELSE IF ~signaturePresent(requireSignature, haveSignature)
     THEN FErr("SignatureMissing", d, f)
     ELSE IF haveSignature /\ requireSignature /\ signatureVerifies(env) # ""
     THEN FErr(signatureVerifies(env), d, f)
     ELSE IF isValidPathTxn(d, dstPath) THEN FOk(d, f)
     ELSE IF ~r.ok THEN FErr(r.err, d, r.fs)
     ELSE r

\* the paths exported and how the exporting store registers them
ExportPaths == CompPaths

ExportInfos(p) ==
  [path : {p}, hash : {HashOf(p)}, references : {{}, CompPaths \ {p}},
   stateReferences : {{}}, deriver : {"", "d0", "d1"}, revision : {0}]

\* the streams an importer may be handed once an envelope is in flight: the
\* envelope itself, and the envelope with its signature stripped, with a
\* signature made by another key, or with its archive changed after signing
Streams(env) ==
  {env,
   [env EXCEPT !.signed = 0, !.signature = NoSignature],
   [env EXCEPT !.signed = 1, !.signature = [key |-> "key2", digest |-> importHashed(env)]],
   [env EXCEPT !.archive = "h2"]}

ExportPathOp(p, sign) ==
  /\ LET r == exportPath(db, fs, p, sign)
     IN /\ wire' = IF r.ok THEN r.env ELSE wire
        /\ last' = Done("exportPath", p, r.err)
  /\ UNCHANGED <<db, fs, now, walk, regVars, ingestVars, dst, disk, schema>>

ImportPathOp(requireSignature, env) ==
  /\ wire # NoWire
  /\ env \in Streams(wire)
  /\ LET r == importPath(dst.db, dst.fs, requireSignature, env, now)
     IN /\ dst' = [db |-> r.db, fs |-> r.fs]
        /\ last' = Done("importPath", env.path, r.err)
  /\ UNCHANGED <<db, fs, now, walk, regVars, ingestVars, wire, disk, schema>>

NextExport ==
  \/ \E p \in ExportPaths : \E info \in ExportInfos(p) : RegisterValidPathOp(info)
  \/ \E p \in ExportPaths : \E sign \in BOOLEAN : ExportPathOp(p, sign)
  \/ \E requireSignature \in BOOLEAN : \E env \in Streams(wire) :
       ImportPathOp(requireSignature, env)

SpecExport == InitReg /\ [][NextExport]_vars

\* the deriver the registry records for a component path
deriverOf(d, p) == IF d.derivers[p].kind = "str" THEN d.derivers[p].str ELSE ""

\* C19: for every valid component path P, exportPath(P) succeeds, and importPath
\* of that stream into an empty store succeeds and leaves P valid there with
\* the hash, the references and the deriver P has in the exporting store.
C19_ExportImportRoundTrip ==
  [][/\ \A p \in ExportPaths : \A sign \in BOOLEAN :
          ExportPathOp(p, sign) /\ isValidPathTxn(db, p) => last'.err = ""
     /\ \A requireSignature \in BOOLEAN :
          (/\ ImportPathOp(requireSignature, wire)
           /\ (requireSignature => wire.signed = 1)
           /\ exportPath(db, fs, wire.path, wire.signed = 1) = [ok |-> TRUE, err |-> "", env |-> wire]
           /\ dst = [db |-> EmptyDB, fs |-> {}])
          => /\ last'.err = ""
             /\ isValidPathTxn(dst'.db, wire.path)
             /\ dst'.db.validPaths[wire.path] = db.validPaths[wire.path]
             /\ dst'.db.references_cc[wire.path] = db.references_cc[wire.path]
             /\ deriverOf(dst'.db, wire.path) = deriverOf(db, wire.path)]_vars

\* C20: importPath with requireSignature = true fails and registers nothing
\* when the stream's signed flag is not 1, and when its signature was not made
\* with the trusted key over the hash of the fields read before the flag; in
\* both cases the importing store is left as it was and the destination path
\* is not made valid.
C20_SignatureRequired ==
  [][\A env \in Streams(wire) :
       (/\ ImportPathOp(TRUE, env)
        /\ \/ env.signed # 1
           \/ env.signature.key # PublicKeyOf
           \/ env.signature.digest # <<env.archive, env.magic, env.path,
                                        env.references, env.deriver>>)
       => /\ last'.err # ""
          /\ env.signed # 1 => last'.err = "SignatureMissing"
          /\ dst' = dst
          /\ ~isValidPathTxn(dst.db, env.path) => ~isValidPathTxn(dst'.db, env.path)]_vars

\* an import that required a signature has just been refused because the
\* archive was changed after signing, and the path is not valid in the
\* importing store
C20_Witness ==
  /\ last.op = "importPath"
  /\ last.err = "SignatureMismatch"
  /\ wire.signed = 1
  /\ ~isValidPathTxn(dst.db, last.path)

\* C24: the per-path lock is released on every exit path: a caller that has
\* failed after acquiring the lock on P no longer holds it, every lock that
\* is held is eventually free again, and every caller blocked on a lock
\* eventually acquires it and completes its call (returns or fails).
C24_LockReleasedOnEveryExit ==
  /\ [](\A i \in Procs : pc[i].at = "failed" => lock[pc[i].path] # i)
  /\ \A p \in CompPaths : (lock[p] # 0) ~> (lock[p] = 0)
  /\ \A i \in Procs : (pc[i].at = "wait") ~> (pc[i].at \in {"done", "failed"})

\* a caller has failed under the lock on c1, and another caller of c1 has
\* acquired the lock since
C24_Witness ==
  \E i, j \in Procs :
    /\ pc[i].at = "failed"
    /\ pc[i].path = "c1"
    /\ pc[j].path = "c1"
    /\ pc[j].at \in {"locked", "materialise", "register"}
    /\ lock["c1"] = j

\* C25: when an ingestion fails after it has put contents at P, no file
\* system entry is left for P: once the lock on P is free, a P that is not
\* valid is not on disk.
C25_NoPartialEntryLeft ==
  \A p \in CompPaths :
    (lock[p] = 0 /\ ~isValidPathTxn(db, p)) => p \notin fs

-----------------------------------------------------------------------------
(* Ingestion next to deleteFromStore, which takes no per-path lock: its     *)
(* transaction commits, and the file system entry is removed afterwards.    *)

\* Transaction txn; ...; invalidatePath; txn.commit()
DeleteTxn(i, p) ==
  /\ pc[i].at = "idle"
  /\ LET r == deleteFromStore(db, p)
     IN /\ db' = IF r.ok THEN r.db ELSE db
        /\ pc' = [pc EXCEPT ![i] = [at |-> IF r.ok THEN "unlink" ELSE "failed",
                                    op |-> "deleteFromStore", path |-> p, src |-> ""]]
  /\ UNCHANGED <<fs, now, last, walk, regVars, lock, mat, xferVars>>

\* deletePathWrapped(path, bytesFreed)
DeleteUnlink(i) ==
  /\ pc[i].at = "unlink"
  /\ fs' = fs \ {pc[i].path}
  /\ disk' = [disk EXCEPT ![pc[i].path] = NoRow]
  /\ pc' = [pc EXCEPT ![i].at = "done"]
  /\ UNCHANGED <<db, now, last, walk, regVars, lock, mat, wire, dst, schema>>

NextStore ==
  \/ NextIngest
  \/ \E i \in Procs, p \in CompPaths : DeleteTxn(i, p)
  \/ \E i \in Procs : DeleteUnlink(i)

SpecStore == InitReg /\ [][NextStore]_vars

\* no call is under way
Quiescent == \A i \in Procs : pc[i].at \in {"idle", "done", "failed"}

\* C22: at every quiescent point, under any interleaving of addToStore,
\* addTextToStore, importPath and deleteFromStore, every valid component path
\* has a file system entry, and the hash recomputed from that entry's contents
\* is the hash recorded for the path.
C22_ContentAddressingLaw ==
  Quiescent =>
    \A p \in CompPaths :
      isValidPathTxn(db, p) => p \in fs /\ hashPath(disk[p]) = db.validPaths[p]

\* C23: every path that addToStore, addTextToStore or importPath makes valid
\* holds the contents its name is computed from (a text path also has the
\* references its name is computed from); importPath never makes valid a
\* destination path whose name does not match the unpacked contents.
C23_NamingInvariant ==
  \A p \in CompPaths :
    isValidPathTxn(db, p) =>
      /\ disk[p] = NamedFor(p).contents
      /\ NamedFor(p).type = "text" => db.references_cc[p] = NamedFor(p).references

-----------------------------------------------------------------------------
(* Path naming.  A name is a sequence of character codes; a computed path  *)
(* is <<root, preimage of the digest, name>>.                              *)

MaxNameLen == 2

\* the characters names are drawn from: space + , - . / 0 : = ? @ A Z [ _ a z {
NameChars == {32, 43, 44, 45, 46, 47, 48, 58, 61, 63, 64, 65, 90, 91, 95, 97, 122, 123}

Names == UNION {[1..n -> NameChars] : n \in 0..MaxNameLen}

\* the state identifiers recipes declare
StateIdentifiers == {<<>>, <<97>>, <<46>>, <<47>>, <<97, 46>>, <<97, 47>>}

\* the identities queryCallingUsername can return
Usernames == {"u1", "u2"}

\* validChars = "+-._?="
validChars == {43, 45, 46, 95, 63, 61}

\* checkStoreName without the test of the first character
checkStoreName_DotAllowed(name) ==
  IF \E i \in 1..Len(name) :
       ~(\/ (name[i] >= 65 /\ name[i] <= 90)
         \/ (name[i] >= 97 /\ name[i] <= 122)
         \/ (name[i] >= 48 /\ name[i] <= 57)
         \/ name[i] \in validChars)
  THEN "InvalidName"
  ELSE ""

\* the empty string when the name passes, the error otherwise;
\* string(name, 0, 1) is the first character, or nothing for the empty name
checkStoreName(name) ==
  IF Len(name) > 0 /\ <<Head(name)>> = <<46>> THEN "InvalidName"
  ELSE IF \E i \in 1..Len(name) :
            ~(\/ (name[i] >= 65 /\ name[i] <= 90)
              \/ (name[i] >= 97 /\ name[i] <= 122)
              \/ (name[i] >= 48 /\ name[i] <= 57)
              \/ name[i] \in validChars)
  THEN "InvalidName"
  ELSE ""

makeStorePath(type, hash, suffix) ==
  LET s == <<type, "sha256", hash, "nixStore", suffix>>
  IN IF checkStoreName(suffix) # "" THEN [err |-> checkStoreName(suffix), path |-> <<>>]
     ELSE [err |-> "", path |-> <<"nixStore", s, suffix>>]

makeStatePath(componentHash, suffix, stateIdentifier, username) ==
  LET suffix_stateIdentifier == <<45>> \o stateIdentifier
      s == <<"sha256", componentHash, "nixStoreState", suffix, stateIdentifier, username>>
  IN IF checkStoreName(suffix) # "" THEN [err |-> checkStoreName(suffix), path |-> <<>>]
     ELSE IF checkStoreName(stateIdentifier) # ""
     THEN [err |-> checkStoreName(stateIdentifier), path |-> <<>>]
     ELSE [err |-> "", path |-> <<"nixStoreState", s, suffix \o suffix_stateIdentifier>>]

\* the comparison builds an Error object and drops it: nothing is thrown
checkStatePath(drv, username) ==
  LET calculatedPath == makeStatePath(drv.componentHash, drv.name, drv.stateIdentifier, username)
  IN IF calculatedPath.err # "" THEN calculatedPath.err
     ELSE IF drv.statepath # calculatedPath.path THEN ""
     ELSE ""

\* the recipes handed to checkStatePath: the declared state path is the one
\* computed for some owner and identifier, which need not be the recipe's
StateRecipes ==
  {[statepath |-> makeStatePath(ch, <<97>>, i2, u).path, componentHash |-> ch,
    name |-> <<97>>, stateIdentifier |-> i1] :
     ch \in {"ch1"}, i1 \in {<<>>, <<97>>}, i2 \in {<<>>, <<97>>}, u \in Usernames}

\* the store directory, spelled "/n"
nixStore == <<47, 110>>

isInStore(path) ==
  /\ Len(path) >= Len(nixStore) + 2
  /\ path[1] = 47
  /\ SubSeq(path, 1, Len(nixStore)) = nixStore
  /\ path[Len(nixStore) + 1] = 47

\* isStorePath of a path written out as a string
isStorePathString(path) ==
  /\ isInStore(path)
  /\ \A i \in (Len(nixStore) + 2)..Len(path) : path[i] # 47

\* the characters the references of a text path are spelled with: / : a n
ReferenceChars == {47, 58, 97, 110}

\* strings below the store directory: short ones, and those that spell two
\* of the shortest joined by ':'
ReferenceStrings ==
  LET below(l) == {nixStore \o <<47>> \o n :
                     n \in UNION {[1..k -> ReferenceChars] : k \in 0..l}}
  IN below(MaxNameLen) \cup {p \o <<58>> \o q : p, q \in below(1) \ {nixStore \o <<47>>}}

\* the references of a text path: the store paths among these strings
TextReferences == {p \in ReferenceStrings : isStorePathString(p)}

TextReferenceSets == {{}} \cup {{a, b} : a, b \in TextReferences}

\* the order of std::string, in which a PathSet is walked
RECURSIVE stringLess(_, _)
stringLess(a, b) ==
  IF b = <<>> THEN FALSE
  ELSE IF a = <<>> THEN TRUE
  ELSE IF a[1] # b[1] THEN a[1] < b[1]
  ELSE stringLess(Tail(a), Tail(b))

\* the loop of computeStorePathForText: ":" and the reference are appended
\* to the type for each reference in turn
RECURSIVE stuffReferences(_, _)
stuffReferences(type, references) ==
  IF references = {} THEN type
  ELSE LET i == CHOOSE r \in references :
                  \A o \in references \ {r} : stringLess(r, o)
       IN stuffReferences(type \o <<58>> \o i, references \ {i})

\* computeStorePathForText that leaves the references out of the type
computeStorePathForText_ContentsOnly(suffix, s, references) ==
  makeStorePath(<<116, 101, 120, 116>>, hashPath(s), suffix)

\* the type starts as "text"
computeStorePathForText(suffix, s, references) ==
  makeStorePath(stuffReferences(<<116, 101, 120, 116>>, references), hashPath(s), suffix)

\* the calls made: the function and its arguments
NamingCalls ==
  {<<"makeStorePath", type, "h1", suffix>> : type \in {"source", "text"}, suffix \in Names}
  \cup {<<"makeStatePath", "ch1", suffix, stateIdentifier, username>> :
          suffix \in Names, stateIdentifier \in StateIdentifiers, username \in Usernames}
  \cup {<<"checkStatePath", drv, username>> : drv \in StateRecipes, username \in Usernames}
  \cup {<<"computeStorePathForText", suffix, "x1", references>> :
          suffix \in {<<97>>, <<58>>}, references \in TextReferenceSets}

\* a call is about to be made with arguments last.res
InitNaming ==
  /\ db = EmptyDB
  /\ fs = {}
  /\ now = 1
  /\ txn = NoTxn
  /\ last \in [op : {""}, path : {<<>>}, err : {""}, res : NamingCalls]
  /\ walk = NoWalk
  /\ IngestIdle
  /\ XferIdle

MakeStorePathOp ==
  /\ last.op = ""
  /\ last.res[1] = "makeStorePath"
  /\ LET r == makeStorePath(last.res[2], last.res[3], last.res[4])
     IN last' = [last EXCEPT !.op = "makeStorePath", !.path = r.path, !.err = r.err]
  /\ UNCHANGED <<db, fs, now, walk, regVars, ingestVars, xferVars>>

MakeStatePathOp ==
  /\ last.op = ""
  /\ last.res[1] = "makeStatePath"
  /\ LET r == makeStatePath(last.res[2], last.res[3], last.res[4], last.res[5])
     IN last' = [last EXCEPT !.op = "makeStatePath", !.path = r.path, !.err = r.err]
  /\ UNCHANGED <<db, fs, now, walk, regVars, ingestVars, xferVars>>

CheckStatePathOp ==
  /\ last.op = ""
  /\ last.res[1] = "checkStatePath"
  /\ last' = [last EXCEPT !.op = "checkStatePath", !.path = last.res[2].statepath,
                          !.err = checkStatePath(last.res[2], last.res[3])]
  /\ UNCHANGED <<db, fs, now, walk, regVars, ingestVars, xferVars>>

ComputeStorePathForTextOp ==
  /\ last.op = ""
  /\ last.res[1] = "computeStorePathForText"
  /\ LET r == computeStorePathForText(last.res[2], last.res[3], last.res[4])
     IN last' = [last EXCEPT !.op = "computeStorePathForText", !.path = r.path,
                             !.err = r.err]
  /\ UNCHANGED <<db, fs, now, walk, regVars, ingestVars, xferVars>>

NextNaming ==
  \/ MakeStorePathOp
  \/ MakeStatePathOp
  \/ CheckStatePathOp
  \/ ComputeStorePathForTextOp

SpecNaming == InitNaming /\ [][NextNaming]_vars

\* C21: checkStatePath fails with SpoofedStatePath whenever the state path a
\* recipe declares differs from the path makeStatePath computes from the
\* recipe's componentHash, name and stateIdentifier and the caller's identity.
C21_SpoofedStatePathRefused ==
  \A drv \in StateRecipes, username \in Usernames :
    (/\ last.op = "checkStatePath"
     /\ last.res = <<"checkStatePath", drv, username>>
     /\ drv.statepath # <<"nixStoreState",
                          <<"sha256", drv.componentHash, "nixStoreState", drv.name,
                            drv.stateIdentifier, username>>,
                          drv.name \o <<45>> \o drv.stateIdentifier>>)
    => last.err = "SpoofedStatePath"

\* the characters a name may hold: A-Z a-z 0-9 + - . _ ? =
AllowedChars == (65..90) \cup (97..122) \cup (48..57) \cup {43, 45, 46, 95, 63, 61}

NameLegal(name) ==
  /\ (name # <<>> => name[1] # 46)
  /\ \A i \in 1..Len(name) : name[i] \in AllowedChars

\* C30: makeStorePath fails with InvalidName exactly when the name starts with
\* '.' or holds a character outside A-Z a-z 0-9 + - . _ ? =, makeStatePath
\* exactly when that is so of the name or of the stateIdentifier; for every
\* other name they return a path.
C30_InvalidNameExactly ==
  /\ last.op = "makeStorePath" =>
       /\ (last.err = "InvalidName") = ~NameLegal(last.res[4])
       /\ NameLegal(last.res[4]) => last.err = "" /\ last.path # <<>>
  /\ last.op = "makeStatePath" =>
       /\ (last.err = "InvalidName") = ~(NameLegal(last.res[3]) /\ NameLegal(last.res[4]))
       /\ (NameLegal(last.res[3]) /\ NameLegal(last.res[4])) =>
            last.err = "" /\ last.path # <<>>

\* makeStatePath has just refused a legal name because the stateIdentifier
\* holds a '/'
C30_Witness ==
  /\ last.op = "makeStatePath"
  /\ last.err = "InvalidName"
  /\ last.res[3] = <<97>>
  /\ last.res[4] = <<97, 47>>

-----------------------------------------------------------------------------
(* The store verifier.  Each loop of verifyStore is a fold of its body     *)
(* over the keys of a table; acc carries the transaction's database, the   *)
(* sets validPaths and realisablePaths, and the exception, if one was      *)
(* thrown.                                                                 *)

RECURSIVE FoldKeys(_, _, _)
FoldKeys(Body(_, _), acc, i) ==
  IF i > Len(KeyOrder) THEN acc
  ELSE CHOOSE r \in {FoldKeys(Body, a, i + 1) :
                       a \in {IF acc.ok THEN Body(acc, KeyOrder[i]) ELSE acc}} : TRUE

VerifyThrow(acc, r) == [acc EXCEPT !.ok = FALSE, !.err = r.err]

\* a verifier that unregisters a path whose contents were modified
onModified_Invalidates(d, path) == [d EXCEPT !.validPaths[path] = NoRow]

\* the contents of a valid path hash to something else: a message is printed
onModified(d, path) == d

\* a body that, for a path that disappeared, clears the references in one
\* run and unregisters the path in the next
verifyValidPath_ClearsReferencesFirst(acc, f, path, checkContents, modified) ==
  LET r == invalidatePath(acc.db, path)
  IN IF ~isValidPathTxn(acc.db, path) THEN acc
     ELSE IF path \notin f /\ acc.db.references_cc[path] # {}
     THEN [acc EXCEPT !.db.references_cc[path] = {}, !.validPaths = @ \cup {path}]
     ELSE IF path \notin f \/ ~isStorePath(path)
     THEN IF r.ok THEN [acc EXCEPT !.db = r.db] ELSE VerifyThrow(acc, r)
     ELSE [acc EXCEPT !.db = IF checkContents /\ path \in modified
                               THEN onModified(acc.db, path) ELSE acc.db,
                      !.validPaths = @ \cup {path}]

\* the body of the loop over the keys of ValidPaths
verifyValidPath(acc, f, path, checkContents, modified) ==
  LET r == invalidatePath(acc.db, path)
  IN IF ~isValidPathTxn(acc.db, path) THEN acc
     ELSE IF path \notin f \/ ~isStorePath(path)
     THEN IF r.ok THEN [acc EXCEPT !.db = r.db] ELSE VerifyThrow(acc, r)
     ELSE [acc EXCEPT !.db = IF checkContents /\ path \in modified
                               THEN onModified(acc.db, path) ELSE acc.db,
                      !.validPaths = @ \cup {path}]

\* the body of the loop over the keys of Substitutes
verifySubstitutesKey(acc, path) ==
  IF acc.db.substitutes[path] = <<>> THEN acc
  ELSE IF ~isStorePath(path) \/ Len(readSubstitutes(acc.db, path)) = 0
  THEN [acc EXCEPT !.db.substitutes[path] = <<>>]
  ELSE [acc EXCEPT !.realisablePaths = @ \cup {path}]

\* the body of the loop over the keys of Derivers
verifyDeriversKey(acc, f, path) ==
  LET q == queryDeriver(acc.db, f, path)
      deleted == [acc EXCEPT !.db.derivers[path] = [kind |-> "none", str |-> "", list |-> {}]]
  IN IF acc.db.derivers[path].kind = "none" THEN acc
     ELSE IF path \notin acc.realisablePaths THEN deleted
     ELSE IF ~q.ok THEN VerifyThrow(acc, q)
     ELSE IF ~isStorePath(q.deriver) THEN deleted
     ELSE acc

\* the body of the loop over the keys of the component-component references
verifyReferencesKey(acc, path, nowTs) ==
  LET r == setReferences(acc.db, path, {}, {}, 0, nowTs)
      q == queryXReferencesTxn(acc.db, path, TRUE, MinusOne, 0)
  IN IF acc.db.references_cc[path] = {} THEN acc
     ELSE IF path \notin acc.realisablePaths
     THEN IF r.ok THEN [acc EXCEPT !.db = r.db] ELSE VerifyThrow(acc, r)
     ELSE IF ~q.ok THEN VerifyThrow(acc, q)
     ELSE acc

verifyStore(d, f, checkContents, modified, nowTs) ==
  LET a0 == [ok |-> TRUE, err |-> "", db |-> d, validPaths |-> {}, realisablePaths |-> {}]
      a1 == FoldKeys(LAMBDA acc, k : verifyValidPath(acc, f, k, checkContents, modified), a0, 1)
      a2 == FoldKeys(verifySubstitutesKey, [a1 EXCEPT !.realisablePaths = a1.validPaths], 1)
      a3 == FoldKeys(LAMBDA acc, k : verifyDeriversKey(acc, f, k), a2, 1)
      a4 == FoldKeys(LAMBDA acc, k : verifyReferencesKey(acc, k, nowTs), a3, 1)
  IN IF a4.ok THEN Ok(a4.db) ELSE Err(a4.err, d)

\* modified: the paths whose contents on disk no longer hash to what was
\* registered
VerifyStoreOp(checkContents, modified) ==
  /\ \E r \in {verifyStore(db, fs, checkContents, modified, now)} :
        /\ db' = r.db
        /\ last' = [op |-> "verifyStore", path |-> "", err |-> r.err,
                     res |-> IF checkContents /\ r.ok
                                /\ \E p \in modified \cap fs : isValidPathTxn(db, p)
                             THEN (IF r.db # db THEN "repaired, modified" ELSE "modified")
                             ELSE (IF r.db # db THEN "repaired" ELSE "")]
  /\ UNCHANGED <<fs, now, walk, regVars, ingestVars, xferVars>>

NextVerify ==
  \/ NextGraph
  \/ \E checkContents \in BOOLEAN, modified \in SUBSET {"c1"} :
       VerifyStoreOp(checkContents, modified)

SpecVerify == InitReg /\ [][NextVerify]_vars

\* C26: running verifyStore(false) twice in a row with no operation in
\* between, the second run changes no table row.
C26_VerifierFixpoint ==
  [][last'.op = "verifyStore" =>
       \A modified \in SUBSET {"c1"} :
         VerifyStoreOp(FALSE, modified) =>
           verifyStore(db', fs', FALSE, modified, now').db = db']_vars

\* a run of verifyStore(false) has just committed after changing rows
C26_Witness ==
  /\ last.op = "verifyStore"
  /\ last.err = ""
  /\ last.res = "repaired"

\* C27: verifyStore reports what it finds by logging, runs to completion and
\* commits on every registry state the public operations can produce: it
\* never fails with an error.
C27_VerifierNeverFails ==
  last.op = "verifyStore" => last.err = ""

\* C28: after verifyStore commits, every key left in ValidPaths is on disk
\* and store-shaped, every key left in Substitutes is store-shaped with a
\* non-empty list, every key left in Derivers is realisable and has a
\* store-shaped value, and no component-component references row is left for
\* a key that is not realisable; a path whose contents were found modified
\* with checkContents is still valid with the same hash row.
C28_VerifierPostcondition ==
  [][\A checkContents \in BOOLEAN, modified \in SUBSET {"c1"} :
       (last'.op = "verifyStore" /\ last'.err = "" /\ VerifyStoreOp(checkContents, modified)) =>
         \A p \in AllPaths :
           /\ db'.validPaths[p] # NoRow => p \in fs' /\ p \in StorePaths
           /\ db'.substitutes[p] # <<>> =>
                p \in StorePaths /\ Len(readSubstitutes(db', p)) > 0
           /\ db'.derivers[p].kind # "none" =>
                /\ isRealisablePath(db', p)
                /\ db'.derivers[p].kind = "str"
                /\ db'.derivers[p].str \in StorePaths
           /\ db'.references_cc[p] # {} => isRealisablePath(db', p)
           /\ (checkContents /\ p \in modified /\ p \in fs /\ db.validPaths[p] # NoRow) =>
                db'.validPaths[p] = db.validPaths[p]]_vars

\* a run of verifyStore(true) has just committed: it unregistered a path that
\* had disappeared and reported c1, which is still valid, as modified
C28_Witness ==
  /\ last.op = "verifyStore"
  /\ last.err = ""
  /\ last.res = "repaired, modified"
  /\ isValidPathTxn(db, "c1")

(* Revisions: setStateRevisions run by several callers.  The call is made  *)
(* outside any transaction, so every table operation of one call is        *)
(* visible to the other callers as soon as it is done.                     *)

\* revision numbers are capped like the clock
MaxRev == MaxTime

\* the root state path, the cuts a caller records and the comments it attaches
RevisionRoot == "s1"

RevisionClosures == {<<"s1">>, <<"s1", "s2">>}

Comments == {"", "note"}

\* the rows of a revisioned table that are keyed by (statePath, revision)
RowsAt(table, statePath, revision) ==
  {row \in table : row.path = statePath /\ row.rev = revision}

\* the next revision number of statePath: the latest one recorded plus one
nixDB_getNewRevisionNumber(d, statePath) ==
  Max({0} \cup {row.rev : row \in {x \in d.revisions : x.path = statePath}}) + 1

\* write the row keyed by (statePath, revision), replacing the one that is there
nixDB_setRevisionRow(table, statePath, revision, row) ==
  (table \ RowsAt(table, statePath, revision)) \cup {row}

\* the call starts on the first member of the cut and mints its revision number
SetStateRevisionsCall(i, members, comment) ==
  /\ pc[i] = Idle
  /\ \A k \in 1..Len(members) : nixDB_getNewRevisionNumber(db, members[k]) <= MaxRev
  /\ pc' = [pc EXCEPT ![i] =
              [at |-> "snapshot", op |-> "setStateRevisions", path |-> RevisionRoot,
               src |-> comment, members |-> members, k |-> 1,
               rev |-> nixDB_getNewRevisionNumber(db, members[1]), ts |-> now]]
  /\ UNCHANGED <<db, fs, now, last, walk, regVars, lock, mat, xferVars>>

\* the row (member, r) -> timestamps of the member goes into Snapshots
SetStateRevisionsSnapshot(i) ==
  /\ pc[i].at = "snapshot"
  /\ LET c == pc[i]
         m == c.members[c.k]
     IN db' = [db EXCEPT !.snapshots =
                 nixDB_setRevisionRow(@, m, c.rev, [path |-> m, rev |-> c.rev, ts |-> c.ts])]
  /\ pc' = [pc EXCEPT ![i].at = "revision"]
  /\ UNCHANGED <<fs, now, last, walk, regVars, lock, mat, xferVars>>

\* the row (member, r) -> members of the cut and their timestamps goes into Revisions
SetStateRevisionsRevision(i) ==
  /\ pc[i].at = "revision"
  /\ LET c == pc[i]
         m == c.members[c.k]
         closure == {[path |-> c.members[k], ts |-> c.ts] : k \in 1..Len(c.members)}
     IN db' = [db EXCEPT !.revisions =
                 nixDB_setRevisionRow(@, m, c.rev,
                                      [path |-> m, rev |-> c.rev, closure |-> closure])]
  /\ pc' = [pc EXCEPT ![i].at = "comment"]
  /\ UNCHANGED <<fs, now, last, walk, regVars, lock, mat, xferVars>>

\* the comment row of (member, r) is written; then the next member, or return
SetStateRevisionsComment(i) ==
  /\ pc[i].at = "comment"
  /\ LET c == pc[i]
         m == c.members[c.k]
     IN /\ db' = [db EXCEPT !.revisionsComments =
                    IF c.src = "" THEN @
                    ELSE nixDB_setRevisionRow(@, m, c.rev,
                                              [path |-> m, rev |-> c.rev, comment |-> c.src])]
        /\ IF c.k < Len(c.members)
           THEN /\ pc' = [pc EXCEPT ![i].at = "mint", ![i].k = c.k + 1]
                /\ UNCHANGED last
           ELSE /\ pc' = [pc EXCEPT ![i] = Idle]
                /\ last' = [op |-> "setStateRevisions", path |-> c.path, err |-> "",
                            res |-> c.rev]
  /\ UNCHANGED <<fs, now, walk, regVars, lock, mat, xferVars>>

\* the revision number of the next member is minted
SetStateRevisionsMint(i) ==
  /\ pc[i].at = "mint"
  /\ pc' = [pc EXCEPT ![i].at = "snapshot",
                      ![i].rev = nixDB_getNewRevisionNumber(db, pc[i].members[pc[i].k])]
  /\ UNCHANGED <<db, fs, now, last, walk, regVars, lock, mat, xferVars>>

NextRevisions ==
  \/ \E i \in Procs, members \in RevisionClosures, comment \in Comments :
       SetStateRevisionsCall(i, members, comment)
  \/ \E i \in Procs : SetStateRevisionsSnapshot(i)
  \/ \E i \in Procs : SetStateRevisionsRevision(i)
  \/ \E i \in Procs : SetStateRevisionsComment(i)
  \/ \E i \in Procs : SetStateRevisionsMint(i)

SpecRevisions == InitReg /\ [][NextRevisions]_vars

\* the revision numbers a call can mint: a call starts below MaxRev and every
\* caller in flight can add one
RevNumbers == 1..(MaxRev + NumProcs)

\* caller i is inside setStateRevisions and holds revision number r for member m
Holds(i, m, r) ==
  /\ pc[i].op = "setStateRevisions"
  /\ pc[i].at \in {"snapshot", "revision", "comment"}
  /\ pc[i].members[pc[i].k] = m
  /\ pc[i].rev = r

\* C29: for every state path, under any interleaving of setStateRevisions calls,
\* the revision numbers minted for it are strictly increasing and gap-free (no
\* number is held by two callers, a number a caller holds is above every number
\* already recorded by a finished write of another call, the recorded numbers
\* are 1..n), and the Revisions, Snapshots and comment rows of one commit
\* become visible together (no reader sees some of them without the others).
C29_RevisionMonotonicity ==
  \A m \in StatePaths :
    /\ \A i \in Procs, j \in Procs, r \in RevNumbers :
         (Holds(i, m, r) /\ Holds(j, m, r)) => i = j
    /\ \A i \in Procs, r \in RevNumbers :
         (Holds(i, m, r) /\ pc[i].at = "snapshot") =>
           \A row \in db.revisions : row.path = m => row.rev < r
    /\ LET minted == {row.rev : row \in {x \in db.revisions : x.path = m}}
       IN minted = 1..Cardinality(minted)
    /\ \A r \in RevNumbers :
         /\ (RowsAt(db.snapshots, m, r) # {}) <=> (RowsAt(db.revisions, m, r) # {})
         /\ RowsAt(db.revisionsComments, m, r) # {} => RowsAt(db.revisions, m, r) # {}
         /\ \A i \in Procs :
              (Holds(i, m, r) /\ pc[i].src # "" /\ RowsAt(db.revisions, m, r) # {}) =>
                RowsAt(db.revisionsComments, m, r) # {}

(* Reading a Substitutes row that other versions of the program wrote.    *)

MaxRowLen == 2

\* the records a stored row can hold: an old-style one, one that unpacks into
\* no string, records of versions 1, 2 and 3, and a version-2 record that
\* does not unpack into four strings
StoredRecords ==
  {[oldStyle |-> TRUE, size |-> 0, version |-> 0, deriver |-> "", program |-> "", args |-> <<>>],
   [oldStyle |-> FALSE, size |-> 0, version |-> 0, deriver |-> "", program |-> "", args |-> <<>>],
   [oldStyle |-> FALSE, size |-> 3, version |-> 2, deriver |-> "d0", program |-> "fetch", args |-> <<>>]}
  \cup [oldStyle : {FALSE}, size : {4}, version : {1, 2, 3}, deriver : {"d0"},
        program : {"fetchA", "fetchB"}, args : {<<>>}]

StoredRows == UNION {[1..n -> StoredRecords] : n \in 0..MaxRowLen}

\* the store holds one Substitutes row, that of c1
InitStored ==
  /\ \E row \in StoredRows :
       db = [EmptyDB EXCEPT !.validPaths = [p \in AllPaths |-> IF p \in Drvs THEN HashOf(p) ELSE NoRow],
                            !.substitutes["c1"] = row]
  /\ fs = Drvs
  /\ now = 1
  /\ txn = NoTxn
  /\ last = NoOp
  /\ walk = NoWalk
  /\ IngestIdle
  /\ XferIdle

\* LocalStore::querySubstitutes(path)
QuerySubstitutesOp(path) ==
  /\ last = NoOp
  /\ LET r == readSubstitutesLoop(db.substitutes[path], <<>>)
     IN last' = [op |-> "querySubstitutes", path |-> path, err |-> r.err, res |-> r.subs]
  /\ UNCHANGED <<db, fs, now, walk, regVars, ingestVars, xferVars>>

NextStored == \E p \in {"c1"} : QuerySubstitutesOp(p)

SpecStored == InitStored /\ [][NextStored]_vars

\* the version-2 records of a row, in stored order
VersionTwo(ss) ==
  SelectSeq(ss, LAMBDA x : ~x.oldStyle /\ x.size > 0 /\ x.version = substituteVersion)

\* every version-2 record of the row unpacks into four strings
WellFormed(ss) == \A i \in 1..Len(VersionTwo(ss)) : VersionTwo(ss)[i].size = 4

\* C31: reading a Substitutes row never fails because of a record whose
\* version is not 2: such records are skipped and every version-2 record of
\* the row is returned in stored order, so a path is realisable through
\* substitutes exactly when its row holds at least one version-2 record.
C31_OtherVersionsSkipped ==
  (last.op = "querySubstitutes" /\ WellFormed(db.substitutes[last.path])) =>
    /\ last.err = ""
    /\ last.res = [i \in 1..Len(VersionTwo(db.substitutes[last.path])) |->
                     [deriver |-> VersionTwo(db.substitutes[last.path])[i].deriver,
                      program |-> VersionTwo(db.substitutes[last.path])[i].program,
                      args    |-> VersionTwo(db.substitutes[last.path])[i].args]]
    /\ isRealisablePath(db, last.path) <=> VersionTwo(db.substitutes[last.path]) # <<>>

\* the records of a row the loop reaches: those before the first old-style one
RECURSIVE BeforeOldStyle(_)
BeforeOldStyle(ss) ==
  IF ss = <<>> \/ Head(ss).oldStyle THEN <<>>
  ELSE <<Head(ss)>> \o BeforeOldStyle(Tail(ss))

\* C31 (amended): reading a Substitutes row never fails because of a record
\* whose version is not 2: the reader stops at the first old-style record,
\* skips the records of another version before it, and returns every
\* version-2 record stored before it in stored order, so a path is
\* realisable through substitutes exactly when its row holds a version-2
\* record before the first old-style record.
C31_OtherVersionsSkippedUpToOldStyle ==
  (last.op = "querySubstitutes" /\ WellFormed(BeforeOldStyle(db.substitutes[last.path]))) =>
    /\ last.err = ""
    /\ last.res = [i \in 1..Len(VersionTwo(BeforeOldStyle(db.substitutes[last.path]))) |->
                     [deriver |-> VersionTwo(BeforeOldStyle(db.substitutes[last.path]))[i].deriver,
                      program |-> VersionTwo(BeforeOldStyle(db.substitutes[last.path]))[i].program,
                      args    |-> VersionTwo(BeforeOldStyle(db.substitutes[last.path]))[i].args]]
    /\ isRealisablePath(db, last.path)
         <=> VersionTwo(BeforeOldStyle(db.substitutes[last.path])) # <<>>

\* a row holding a version-1 record in front of a version-2 record has been
\* read: the version-2 record alone came back
C31_Witness ==
  /\ last.op = "querySubstitutes"
  /\ last.err = ""
  /\ Len(db.substitutes["c1"]) = 2
  /\ db.substitutes["c1"][1].version = 1
  /\ db.substitutes["c1"][1].size = 4
  /\ db.substitutes["c1"][2].version = 2
  /\ db.substitutes["c1"][2].size = 4
  /\ last.res = <<[deriver |-> "d0", program |-> db.substitutes["c1"][2].program, args |-> <<>>]>>

(* Opening the store: the constructor of LocalStore reads the schema file, *)
(* refuses a store it does not support, upgrades an older one and writes    *)
(* the current version.  The reserved-space file is not part of the model.  *)

\* schema 3 is the one upgradeStore09 upgrades to
nixSchemaVersion == 3

\* what the schema file can hold; NoRow: there is no schema file
SchemaFiles == {NoRow, "corrupt", "0", "1", "2", "3", "4", "5"}

\* string2Int on the contents of the schema file
string2Int(s) ==
  CASE s = "0" -> [ok |-> TRUE, n |-> 0]
    [] s = "1" -> [ok |-> TRUE, n |-> 1]
    [] s = "2" -> [ok |-> TRUE, n |-> 2]
    [] s = "3" -> [ok |-> TRUE, n |-> 3]
    [] s = "4" -> [ok |-> TRUE, n |-> 4]
    [] s = "5" -> [ok |-> TRUE, n |-> 5]
    [] OTHER   -> [ok |-> FALSE, n |-> 0]

\* format("%1%") % nixSchemaVersion
formatInt(n) ==
  CASE n = 0 -> "0" [] n = 1 -> "1" [] n = 2 -> "2" [] n = 3 -> "3" [] n = 4 -> "4"
    [] OTHER -> "5"

\* upgradeStore07: every valid path registered without a hash is hashed; the
\* hashing fails for a path that is not on disk.  No path of the model is an
\* old closure file (".store"), so the second loop changes nothing.
upgradeStore07(d, f, dk) ==
  LET unhashed == {p \in CompPaths : d.validPaths[p] = ""}
  IN IF \E p \in unhashed : p \notin f THEN Err("SysError", d)
     ELSE Ok([d EXCEPT !.validPaths =
                 [p \in AllPaths |-> IF p \in unhashed THEN hashPath(dk[p]) ELSE @[p]]])

\* upgradeStore09 deletes the table "referers", which the model does not hold
upgradeStore09(d) == Ok(d)

\* the schema the constructor takes as it is although it is not nixSchemaVersion
supportsSchema(curSchema) == curSchema = 4

\* LocalStore::LocalStore
OpenStore(readOnlyMode, permission) ==
  /\ last = NoOp
  /\ LET cur == IF schema = NoRow THEN [ok |-> TRUE, n |-> 0] ELSE string2Int(schema)
         up07 == upgradeStore07(db, fs, disk)
         up09 == upgradeStore09(db)
         done(e, steps) == last' = [op |-> "LocalStore", path |-> schema, err |-> e,
                                    res |-> steps]
     IN IF readOnlyMode THEN done("", <<"readOnly">>) /\ UNCHANGED <<db, schema>>
        ELSE IF ~permission THEN done("", <<"readOnly">>) /\ UNCHANGED <<db, schema>>
        ELSE IF ~cur.ok THEN done("Corrupt", <<>>) /\ UNCHANGED <<db, schema>>
        ELSE IF cur.n > nixSchemaVersion /\ ~supportsSchema(cur.n)
        THEN done("UnsupportedSchema", <<>>) /\ UNCHANGED <<db, schema>>
        ELSE IF cur.n < nixSchemaVersion /\ ~supportsSchema(cur.n)
        THEN IF cur.n <= 1
             THEN IF up07.ok
                  THEN /\ done("", <<"upgradeStore07", "writeFile">>)
                       /\ db' = up07.db
                       /\ schema' = formatInt(nixSchemaVersion)
                  ELSE done(up07.err, <<"upgradeStore07">>) /\ UNCHANGED <<db, schema>>
             ELSE /\ done("", <<"upgradeStore09", "writeFile">>)
                  /\ db' = up09.db
                  /\ schema' = formatInt(nixSchemaVersion)
        ELSE done("", <<>>) /\ UNCHANGED <<db, schema>>
  /\ UNCHANGED <<fs, now, walk, regVars, ingestVars, wire, dst, disk>>

\* a store left by any version of the program: c1 is not valid, or valid
\* without a hash (schema 1), or valid with its hash; it is on disk or not
InitOpen ==
  /\ \E h \in {NoRow, "", "h1"} :
       db = [EmptyDB EXCEPT !.validPaths["c1"] = h]
  /\ fs \in {{}, {"c1"}}
  /\ disk = [p \in CompPaths |-> IF p \in fs THEN "x1" ELSE NoRow]
  /\ schema \in SchemaFiles
  /\ now = 1
  /\ txn = NoTxn
  /\ last = NoOp
  /\ walk = NoWalk
  /\ IngestIdle
  /\ wire = NoWire
  /\ dst = [db |-> EmptyDB, fs |-> {}]

NextOpen == \E readOnlyMode \in BOOLEAN, permission \in BOOLEAN : OpenStore(readOnlyMode, permission)

SpecOpen == InitOpen /\ [][NextOpen]_vars

\* the store was opened for writing and its schema file held the number n
OpenedWith(n) ==
  /\ last.op = "LocalStore"
  /\ last.res # <<"readOnly">>
  /\ last.path # NoRow
  /\ string2Int(last.path) = [ok |-> TRUE, n |-> n]

\* C32: opening a store whose schema file holds any version greater than the
\* supported schema version fails with UnsupportedSchema and leaves the schema
\* file unchanged; opening one with an older version runs the upgrade and only
\* then writes the current version to the schema file.
C32_SchemaGate ==
  \A n \in 0..5 :
    OpenedWith(n) =>
      /\ n > nixSchemaVersion => last.err = "UnsupportedSchema" /\ schema = last.path
      /\ n < nixSchemaVersion =>
           IF last.err = ""
           THEN /\ Len(last.res) = 2
                /\ last.res[1] \in {"upgradeStore07", "upgradeStore09"}
                /\ last.res[2] = "writeFile"
                /\ schema = "3"
           ELSE schema = last.path

(* State-valued referrer queries over revisions: state paths are          *)
(* registered, s3's references are rewritten as the clock runs, revisions   *)
(* of s1 are recorded, and the state referrers of s1 are queried.           *)

\* getXReferrers with component_or_state = false: for every source in the
\* keys of the state-keyed table the loop keeps the largest key number (both
\* branches of the comparison with the bound assign it), the row under that
\* key is read, and the source is a referrer when the row holds the path
getStateReferrersTxn(d, store_or_statePath, revision) ==
  LET ns == toNonSharedPathTxn(d, store_or_statePath)
      table == IF isValidPathTxn(d, store_or_statePath) THEN "references_sc"
               ELSE "references_ss"
      path == IF isValidPathTxn(d, store_or_statePath) THEN store_or_statePath
              ELSE ns.path
      t == nixDB_revisionToTimeStamp(d, path, revision)
      latest == [k \in {r.path : r \in d[table]} |->
                   Max({r.ts : r \in {x \in d[table] : x.path = k}})]
  IN IF ~isValidPathTxn(d, store_or_statePath) /\ ~isValidStatePathTxn(d, store_or_statePath)
     THEN QErr("NotValid")
     ELSE IF ~isValidPathTxn(d, store_or_statePath) /\ ns.diverges THEN QErr("diverges")
     ELSE IF revision # 0 /\ ~t.found THEN QErr("NoSuchRevision")
     ELSE QOk({k \in DOMAIN latest :
                 \E r \in d[table] : r.path = k /\ r.ts = latest[k] /\ path \in r.refs})

\* queryStateReferrersTxn, which LocalStore::queryStateReferrers calls
queryStateReferrersTxn(d, storePath, revision) ==
  IF ~isRealisableComponentOrStatePath(d, storePath) THEN QErr("NotValid")
  ELSE getStateReferrersTxn(d, storePath, revision)

QueryStateReferrersOp(p, revision) ==
  /\ LET r == queryStateReferrersTxn(db, p, revision)
     IN last' = [op |-> "queryStateReferrers", path |-> p, err |-> r.err, res |-> r.refs]
  /\ UNCHANGED <<db, fs, now, walk, regVars, ingestVars, xferVars>>

\* the references written for s3, and the revisions a query names
ReferrerRefs == {{}, {"s1"}}

QueryRevisions == {0, 1}

NextReferrers ==
  \/ \E p \in AliasValid : RegisterValidPathOp(AliasInfo(p))
  \/ \E rs \in ReferrerRefs : SetReferencesOp("s3", {}, rs, 0)
  \/ Tick
  \/ SetStateRevisionsCall(1, <<"s1">>, "")
  \/ SetStateRevisionsSnapshot(1)
  \/ SetStateRevisionsRevision(1)
  \/ SetStateRevisionsComment(1)
  \/ \E revision \in QueryRevisions : QueryStateReferrersOp("s1", revision)

SpecReferrers == InitReg /\ [][NextReferrers]_vars

\* the referrers the bound selects: source k is read at the largest timestamp
\* of its rows that is <= bound (bound 0: no bound)
ReferrersAt(d, table, path, bound) ==
  {k \in AllPaths :
     LET rows == {r \in d[table] : r.path = k /\ (bound = 0 \/ r.ts <= bound)}
     IN \E r \in rows : (\A q \in rows : q.ts <= r.ts) /\ path \in r.refs}

\* C33: for a state-valued referrer query with a revision bound, each
\* candidate source state path k is read at the largest timestamp t of its
\* rows that is <= the timestamp bound obtained for the revision (the largest
\* t when no bound is given); a source with no row at or below the bound
\* contributes no referrer.
C33_ReferrersAtRevisionBound ==
  [][\A revision \in QueryRevisions :
       (last'.op = "queryStateReferrers" /\ last'.err = ""
          /\ QueryStateReferrersOp("s1", revision)) =>
         last'.res = ReferrersAt(db, "references_ss", "s1",
                                 IF revision = 0 THEN 0
                                 ELSE nixDB_revisionToTimeStamp(db, "s1", revision).ts)]_vars

(* setReferences called with every kind of path and revision: c1 and s1   *)
(* are registered, c2 is realisable through a substitute, s2 is neither.    *)

RefsPaths == {"c1", "c2", "s1", "s2"}

RefsComponentRefs == {{}, {"c1"}}

RefsStateRefs == {{}, {"s1"}}

RefsRevisions == {0, 1}

\* a caller sets the references of a path and commits; the arguments are kept
SetReferencesCall(p, references, stateReferences, revision) ==
  /\ LET r == setReferences(db, p, references, stateReferences, revision, now)
     IN /\ db' = IF r.ok THEN r.db ELSE db
        /\ last' = [op |-> "setReferences", path |-> p, err |-> r.err,
                    res |-> [references |-> references, stateReferences |-> stateReferences,
                             revision |-> revision]]
  /\ UNCHANGED <<fs, now, walk, regVars, ingestVars, xferVars>>

NextRefs ==
  \/ \E p \in {"c1", "s1"} : \E info \in GraphInfos(p) : RegisterValidPathOp(info)
  \/ \E sub \in RegSubs : RegisterSubstituteOp("c2", sub)
  \/ \E p \in RefsPaths, rc \in RefsComponentRefs, rs \in RefsStateRefs, revision \in RefsRevisions :
       SetReferencesCall(p, rc, rs, revision)

SpecRefs == InitReg /\ [][NextRefs]_vars

\* C34: setReferences(P, refs_c, refs_s, r) on a realisable component path P
\* sets RefCC[P] = refs_c and RefCS[P] = refs_s for every value of r, and
\* leaves every other key of RefCC/RefCS and all rows of the state-keyed
\* tables RefSC, RefSS and Revisions unchanged.
C34_ComponentReferencesIgnoreRevision ==
  [][\A p \in CompPaths, rc \in RefsComponentRefs, rs \in RefsStateRefs, revision \in RefsRevisions :
       (/\ last'.op = "setReferences"
        /\ last'.path = p
        /\ isRealisablePath(db, p)
        /\ SetReferencesCall(p, rc, rs, revision)) =>
         /\ last'.err = ""
         /\ db'.references_cc[p] = rc
         /\ db'.references_cs[p] = rs
         /\ \A q \in AllPaths \ {p} :
              /\ db'.references_cc[q] = db.references_cc[q]
              /\ db'.references_cs[q] = db.references_cs[q]
         /\ db'.references_sc = db.references_sc
         /\ db'.references_ss = db.references_ss
         /\ db'.revisions = db.revisions]_vars

\* setReferences with revision 1 has just rewritten both rows of c2, which is
\* realisable through its substitute only, while s1 holds rows of its own
C34_Witness ==
  /\ last.op = "setReferences"
  /\ last.path = "c2"
  /\ last.err = ""
  /\ last.res = [references |-> {"c1"}, stateReferences |-> {"s1"}, revision |-> 1]
  /\ ~isValidPathTxn(db, "c2")
  /\ db.references_cc["c2"] = {"c1"}
  /\ db.references_cs["c2"] = {"s1"}
  /\ db.references_ss # {}

C38_TextPathInjectiveInReferences ==
  (last.op = "computeStorePathForText" /\ last.err = "") =>
    \A other \in TextReferenceSets \ {last.res[4]} :
      LET r == computeStorePathForText(last.res[2], last.res[3], other)
      IN /\ r.err = ""
         /\ r.path[2] # last.path[2]
         /\ r.path # last.path

\* a path has been computed for a text with two references, one of them with
\* a ':' in its name
C38_Witness ==
  /\ last.op = "computeStorePathForText"
  /\ last.err = ""
  /\ Cardinality(last.res[4]) = 2
  /\ \E p \in last.res[4] : \E i \in 1..Len(p) : p[i] = 58

\* C39: the fields importPath hashes are the fields exportPath hashed
\* (archive, magic, path, references, deriver): for the signed envelope
\* exportPath wrote, unmodified, the hash importPath computes is the hash that
\* was signed, and the signature check passes.
C39_ImportHashesWhatExportSigned ==
  (wire # NoWire /\ wire.signed = 1) =>
    /\ importHashed(wire) = wire.signature.digest
    /\ importHashed(wire) = exportHashed(wire.archive, wire.magic, wire.path,
                                         wire.references, wire.deriver)
    /\ signatureVerifies(wire) = ""

\* a signed envelope with references and a deriver is in flight and has been
\* imported
C39_Witness ==
  /\ wire # NoWire
  /\ wire.signed = 1
  /\ wire.references # <<>>
  /\ wire.deriver # ""
  /\ last.op = "importPath"
  /\ last.err = ""
  /\ isValidPathTxn(dst.db, wire.path)

\* C40: queryDeriver(P) on a realisable component P without a Derivers row
\* returns the empty string without failing, so exportPath of such a valid
\* path succeeds and writes an empty deriver field.
C40_NoDeriverIsEmptyString ==
  [][\A p \in ExportPaths : \A sign \in BOOLEAN :
       (/\ last'.op = "exportPath"
        /\ ExportPathOp(p, sign)
        /\ isValidPathTxn(db, p)
        /\ db.derivers[p].kind = "none")
       => /\ queryDeriver(db, fs, p) = [ok |-> TRUE, err |-> "", deriver |-> ""]
          /\ last'.err = ""
          /\ wire'.deriver = ""]_vars

\* the SharedState table has a cycle through path p
RECURSIVE ReachesVia(_, _, _, _)
ReachesVia(d, from, target, n) ==
  IF n = 0 \/ d.sharedState[from] = NoRow THEN FALSE
  ELSE d.sharedState[from] = target \/ ReachesVia(d, d.sharedState[from], target, n - 1)

OnCycle(d, p) == ReachesVia(d, p, p, Cardinality(StatePaths))

\* C9: alias acyclicity I5: after any sequence of setSharedState calls the
\* SharedState table, seen as a directed graph, contains no cycle.
C9_AliasAcyclic == \A p \in StatePaths : ~OnCycle(db, p)

\* C10: for every reachable SharedState table and every state path P,
\* toNonShared(P) terminates, and the path it returns has no SharedState row.
C10_ToNonSharedTerminates ==
  /\ [](last.op = "toNonShared" => ~querySharedStateTxn(db, last.res))
  /\ (walk.active ~> ~walk.active)

-----------------------------------------------------------------------------
(* The reverse walk over the SharedState table: every alias of the state   *)
(* a path points at.                                                       *)

\* the state paths whose row points directly at statePath
getDirectlySharedWithPathSetTxn(d, statePath) ==
  {k \in AllPaths : d.sharedState[k] = statePath}

\* the loop of getSharedWithPathSetRecTxn_private over newStatePaths, in the
\* order of the set; statePaths is the set the caller passed by reference
RECURSIVE sharedWithLoop(_, _, _)
sharedWithLoop(d, newStatePaths, statePaths) ==
  IF newStatePaths = <<>> THEN statePaths
  ELSE IF Head(newStatePaths) \in statePaths
  THEN sharedWithLoop(d, Tail(newStatePaths), statePaths)
  ELSE CHOOSE r \in {sharedWithLoop(d, Tail(newStatePaths), sub) :
                       sub \in {sharedWithLoop(d,
                                  writeStringSet(getDirectlySharedWithPathSetTxn(d, Head(newStatePaths))),
                                  statePaths \cup {Head(newStatePaths)})}} : TRUE

getSharedWithPathSetRecTxn_private(d, statePath, statePaths) ==
  sharedWithLoop(d, writeStringSet(getDirectlySharedWithPathSetTxn(d, statePath)), statePaths)

\* a walk that leaves the path it was asked about in the result
getSharedWithPathSetRecTxn_KeepsSelf(d, statePath) ==
  LET ns == toNonSharedPathTxn(d, statePath)
  IN IF ns.diverges THEN QErr("diverges")
     ELSE QOk(getSharedWithPathSetRecTxn_private(d, ns.path,
                IF ns.path # statePath THEN {ns.path} ELSE {}))

\* the walk does not return when toNonSharedPathTxn never leaves a cycle
getSharedWithPathSetRecTxn(d, statePath) ==
  LET ns == toNonSharedPathTxn(d, statePath)
  IN IF ns.diverges THEN QErr("diverges")
     ELSE QOk(getSharedWithPathSetRecTxn_private(d, ns.path,
                IF ns.path # statePath THEN {ns.path} ELSE {}) \ {statePath})

GetSharedWithOp(statePath) ==
  /\ LET r == getSharedWithPathSetRecTxn(db, statePath)
     IN last' = [op |-> "getSharedWith", path |-> statePath, err |-> r.err, res |-> r.refs]
  /\ UNCHANGED <<db, fs, now, walk, regVars, ingestVars, xferVars>>

NextSharedWith ==
  \/ \E f \in StatePaths, t \in StatePaths : SetSharedState(f, t)
  \/ \E p \in StatePaths : GetSharedWithOp(p)

SpecSharedWith == InitShared /\ [][NextSharedWith]_vars

\* C37: for every acyclic SharedState table and every state path P,
\* getSharedWithRec(P) terminates and returns exactly the set of state paths
\* Q # P with toNonShared(Q) = toNonShared(P) (the underlying non-shared path
\* itself included when it differs from P).
C37_SharedWithIsAliasClass ==
  (last.op = "getSharedWith" /\ \A p \in StatePaths : ~OnCycle(db, p)) =>
    /\ last.err = ""
    /\ last.res = {q \in StatePaths \ {last.path} :
                     toNonSharedPathTxn(db, q).path = toNonSharedPathTxn(db, last.path).path}

\* in the table s1 -> s2 <- s3 the aliases of s1 have just been asked for:
\* the underlying path s2 and the other alias s3 came back
C37_Witness ==
  /\ last.op = "getSharedWith"
  /\ last.path = "s1"
  /\ last.err = ""
  /\ db.sharedState["s1"] = "s2"
  /\ db.sharedState["s3"] = "s2"
  /\ db.sharedState["s2"] = NoRow
  /\ last.res = {"s2", "s3"}

====
